---- MODULE Spec2Model ----
(***************************************************************************)
(* The CoALA cycle controller of autops-demo                               *)
(* (src/agent/coala_reasoning_engine.py) with the action registry and the  *)
(* memory modules it drives.  One behaviour of Spec is one controller, from *)
(* its construction through one reason() call; every suspension point of   *)
(* the coroutine (a request to a language model, a tool invocation)         *)
(* separates two steps.  SpecConcurrent lets a second request enter         *)
(* reason() on the same controller while the first is suspended,            *)
(* SpecMemory calls the interface of one memory module directly, and        *)
(* SpecRegistry builds the registry from a tool catalog and calls           *)
(* execute_action on it.                                                    *)
(*                                                                         *)
(* Python dicts are functions on the set of their keys ("k" \in DOMAIN d   *)
(* is `k in d`), lists are sequences, None is NONE, and confidences are    *)
(* percentages (0.5 is 50).                                                *)
(***************************************************************************)
EXTENDS Integers, Sequences, FiniteSets, TLC

VARIABLES
    max_cycles,      \* self.max_cycles
    pc,              \* where reason() stands
    call_status,     \* "none" | "running" | "returned" | "raised"
    original_task,   \* self.original_task
    task_keywords,   \* self.task_keywords (how they were obtained)
    current_cycle,   \* self.current_cycle
    current_state,   \* the local current_state of reason()
    cycle_history,   \* self.cycle_history
    wm_state,        \* working_memory.current_state
    wm_data,         \* working_memory.data
    episodic,        \* episodic_memory.data
    semantic,        \* semantic_memory.data
    procedural,      \* procedural_memory.data
    next_uid,        \* the identifiers handed out so far
    final_result,    \* the mapping built by _synthesize_final_result
    attempt,         \* loop variable of _parse_data_with_retry
    retry_llm,       \* the model the retry request in flight was sent to
    plan_phases,     \* _planning_cycle calls of this run
    exec_phases,     \* _execution_cycle calls of this run
    fault,           \* the phase in which an exception left its coroutine
    episodes_at_call, \* len(episodic_memory.data) when reason() was entered
    tool_raised,     \* the tool whose invocation raised in this run, if one did
    other_call,      \* a second reason() call on the controller: "none" | "running"
    episodic_file,   \* the entries load() reads from episodic_memory.file_path
    semantic_file,   \* the entries load() reads from semantic_memory.file_path
    procedural_file, \* the entries load() reads from procedural_memory.file_path
    disk,            \* what a write to a memory file does: DiskStates
    mem_call,        \* the last call made on a memory module from outside reason()
    tools,           \* action_space.tools: the catalog handed to the constructor
    actions,         \* action_space.actions
    exec_call        \* the last execute_action call made from outside reason()

vars == << max_cycles, pc, call_status, original_task, task_keywords,
           current_cycle, current_state, cycle_history, wm_state, wm_data,
           episodic, semantic, procedural, next_uid, final_result, attempt,
           plan_phases, exec_phases, fault, episodes_at_call, tool_raised,
           other_call, episodic_file, semantic_file, procedural_file, disk, mem_call,
           tools, actions, exec_call, retry_llm >>

\* the memory files
durable == << episodic_file, semantic_file, procedural_file >>

\* what no step of a reason() call writes
outside == << other_call, disk, mem_call, tools, actions, exec_call >>

-----------------------------------------------------------------------------
(* Bounds and program constants *)

MaxBudget == 3

ConcurrentBudget == 2

\* calls made on a memory module from outside reason()
MaxCalls == 3

\* execute_action calls made from outside reason()
MaxExecutions == 2

\* reason() calls made one after the other on one controller, and its budget
MaxRuns == 2

SequenceBudget == 2

\* the largest limit handed to retrieve
MaxLimit == 2

MaxRetries == 2

DefaultConfidence == 50

ExecutionConfidence == 80

-----------------------------------------------------------------------------
(* Python values *)

NONE == "<None>"

EmptyMap == [k \in {} |-> NONE]

Put(d, k, v) == [x \in (DOMAIN d) \cup {k} |-> IF x = k THEN v ELSE d[x]]

Get(d, k, default) == IF k \in DOMAIN d THEN d[k] ELSE default

\* bool(x) of an action name: None and "" are falsy
Truthy(name) == name # NONE /\ name # ""

-----------------------------------------------------------------------------
(* CoALAState *)

INITIAL == "initial"

PLANNING == "planning"

EXECUTION == "execution"

COMPLETED == "completed"

ERROR == "error"

CoALAState == {INITIAL, PLANNING, EXECUTION, COMPLETED, ERROR}

-----------------------------------------------------------------------------
(* ActionType and the action registry (coala_action_space.py) *)

INTERNAL_REASONING == "internal_reasoning"

INTERNAL_RETRIEVAL == "internal_retrieval"

INTERNAL_LEARNING == "internal_learning"

EXTERNAL_GROUNDING == "external_grounding"

\* the tool catalog handed to the constructor
Tools == {"region_mapper", "object_detector"}

InternalActionType(name) ==
    CASE name = "reasoning" -> INTERNAL_REASONING
      [] name \in {"retrieve_episodic", "retrieve_semantic", "retrieve_procedural"}
              -> INTERNAL_RETRIEVAL
      [] name \in {"store_episode", "store_fact", "store_procedure"}
              -> INTERNAL_LEARNING

InternalActionNames ==
    {"reasoning", "retrieve_episodic", "retrieve_semantic", "retrieve_procedural",
     "store_episode", "store_fact", "store_procedure"}

\* a catalog maps a tool name to its entry; of an entry the registry reads
\* whether it has an 'execute' key
DefaultCatalog == [name \in Tools |-> [execute |-> TRUE]]

\* self.actions after _register_internal_actions and _register_external_actions:
\* a tool registered under an internal action's name replaces that entry
Registry(catalog) ==
    [name \in InternalActionNames \cup DOMAIN catalog |->
        IF name \in DOMAIN catalog
        THEN [name |-> name, action_type |-> EXTERNAL_GROUNDING,
              execute |-> catalog[name].execute]
        ELSE [name |-> name, action_type |-> InternalActionType(name),
              execute |-> (name # "reasoning")]]

\* the registry of the controller, which is built on the catalog of Tools
ActionSpace == Registry(DefaultCatalog)

IsInternal(action) ==
    action.action_type \in {INTERNAL_REASONING, INTERNAL_RETRIEVAL, INTERNAL_LEARNING}

IsExternal(action) == action.action_type = EXTERNAL_GROUNDING

\* get_internal_actions, get_external_actions and the three by type
GetInternalActions(registry) ==
    {registry[name] : name \in {n \in DOMAIN registry : IsInternal(registry[n])}}

GetExternalActions(registry) ==
    {registry[name] : name \in {n \in DOMAIN registry : IsExternal(registry[n])}}

ActionsOfType(registry, action_type) ==
    {registry[name] : name \in {n \in DOMAIN registry :
                                    registry[n].action_type = action_type}}

\* an execute_action that reports every failure as an unknown action
ExecuteActionOneError(registry, action_name) ==
    IF action_name \notin DOMAIN registry \/ ~registry[action_name].execute
    THEN "not_found" ELSE "none"

\* execute_action up to the invocation: the ValueError it raises, if one
ExecuteAction(registry, action_name) ==
    IF action_name \notin DOMAIN registry THEN "not_found"
    ELSE IF ~registry[action_name].execute THEN "no_execute"
    ELSE "none"

\* a next_action that is a JSON array: dict.get raises TypeError on it
UNHASHABLE == "<list>"

-----------------------------------------------------------------------------
(* Texts.  A text is known by the lower-cased keywords it contains. *)

TaskText == "Detect vehicles in Munich"

NoteText == "note"

\* text.lower().split()
Split(text) ==
    CASE text = TaskText -> << "detect", "vehicles", "in", "munich" >>
      [] text = NoteText -> << "note" >>
      [] OTHER -> << >>

\* the keywords k with `k in text.lower()`
Mentions(text) ==
    CASE text = TaskText -> {"detect", "vehicles", "in", "munich"}
      [] text = NoteText -> {"note"}
      [] text = "Bayern is the largest state in Germany" -> {"in"}
      [] text = "Munich is the capital of Bayern, coordinates approximately" -> {"in", "munich"}
      [] text = "The Alps mountain range forms the southern border of Bayern" -> {"in"}
      [] text = "The Isar river flows through Munich from south to north" -> {"munich"}
      [] text = "Bayern typically has moderate cloud cover; Alps region" -> {"region"}
      [] text = "Munich bounding box" -> {"in", "munich"}
      [] text = "unknown bounding box" -> {"in"}
      [] text = "When task involves detecting objects in a named region" -> {"detect", "in", "region"}
      [] text = "Standard workflow: Map region first, then detect objects" -> {"detect", "region"}
      [] text = "When working with raw satellite imagery" -> {"in"}
      [] text = "Process image before running detection" -> {"detect", "in"}
      [] text = "For large regions like Bayern, use moderate bbox expansion" -> {"region"}
      [] text = "Querying large geographic areas" -> {"in"}
      [] text = "Effective prompt for extracting region names from user queries"
              -> {"in", "region"}
      [] OTHER -> {}

Lower(text) ==
    CASE text = "Munich" -> "munich"
      [] OTHER -> text

-----------------------------------------------------------------------------
(* What a language model may answer *)

\* _parse_confidence, on the values a decision may carry for "confidence"
Number(v) == [kind |-> "number", value |-> v]

NoNumber == [kind |-> "null", value |-> 0]

\* a text, known by the numbers re.findall(r'0\.\d+|\d+\.\d+', text) finds in it
Text(numbers) == [kind |-> "string", numbers |-> numbers]

\* float(x) of a number is the number; of a text, the first number found in it,
\* or 0.5 when there is none; float(None) raises TypeError, which gives 0.5
ParseConfidence(confidence_raw) ==
    CASE confidence_raw.kind = "number" -> confidence_raw.value
      [] confidence_raw.kind = "string" ->
            IF confidence_raw.numbers # << >> THEN confidence_raw.numbers[1]
            ELSE DefaultConfidence
      [] OTHER -> DefaultConfidence

ParseErrorSentinel == [error |-> "Could not parse JSON or TOON", raw_text |-> "raw"]

\* a response text: an object literal, a literal that decodes to a list, or prose
Json(obj) == [form |-> "object", obj |-> obj]

ListText == [form |-> "list", obj |-> EmptyMap]

Prose == [form |-> "prose", obj |-> EmptyMap]

\* _parse_data: the decoded value, a dict unless the text held a list
ParseData(text) ==
    CASE text.form = "object" -> [isdict |-> TRUE, value |-> text.obj]
      [] text.form = "list" -> [isdict |-> FALSE, value |-> EmptyMap]
      [] OTHER -> [isdict |-> TRUE, value |-> ParseErrorSentinel]

\* `'error' in result`
HasError(parsed) == parsed.isdict /\ "error" \in DOMAIN parsed.value

RAISES == [form |-> "raises", obj |-> EmptyMap]

ValidEpisode == [task |-> NoteText]

InvalidEpisode == [outcome |-> "noted"]

ValidFact == [concept |-> "note", content |-> NoteText]

ValidProcedure == [procedure_type |-> "strategy", name |-> "note"]

PlanObjects ==
    { [next_action |-> NONE, task_complete |-> TRUE, confidence |-> Number(90)],
      [next_action |-> NONE, task_complete |-> FALSE],
      [next_action |-> "region_mapper", parameters |-> [region_name |-> "Munich"],
       task_complete |-> FALSE, confidence |-> Number(90)],
      [next_action |-> "region_mapper", parameters |-> [region_name |-> "Munich"],
       task_complete |-> TRUE, confidence |-> Number(90)],
      [next_action |-> "region_mapper",
       parameters |-> [region_name |-> NONE, coordinates |-> "coordinates"],
       task_complete |-> FALSE, confidence |-> Number(90)],
      [next_action |-> "object_detector", task_complete |-> FALSE,
       confidence |-> NoNumber],
      [next_action |-> "store_episode", parameters |-> [episode |-> ValidEpisode],
       task_complete |-> FALSE, confidence |-> Number(90)],
      [next_action |-> "store_episode", parameters |-> EmptyMap,
       task_complete |-> FALSE, confidence |-> Number(90)],
      [next_action |-> "store_episode", parameters |-> [episode |-> InvalidEpisode],
       task_complete |-> FALSE, confidence |-> Number(90)],
      [next_action |-> "store_fact", parameters |-> [fact |-> ValidFact],
       task_complete |-> FALSE, confidence |-> Number(90)],
      [next_action |-> "store_procedure", parameters |-> [procedure |-> ValidProcedure],
       task_complete |-> FALSE, confidence |-> Number(90)],
      [next_action |-> "reasoning", task_complete |-> FALSE, confidence |-> Text(<< >>)],
      [next_action |-> "launch_probe", task_complete |-> FALSE, confidence |-> Number(8500)],
      [next_action |-> "", task_complete |-> FALSE, confidence |-> Text(<< 90 >>)],
      [next_action |-> UNHASHABLE, task_complete |-> FALSE, confidence |-> Number(90)] }

PlanningReplies == {RAISES, Prose, ListText} \cup {Json(p) : p \in PlanObjects}

FullReport(status) ==
    [situation_summary |-> "summary", analysis |-> "analysis",
     recommendations |-> << "review" >>, confidence |-> 90, task_status |-> status]

SynthesisObjects ==
    { FullReport("completed"), FullReport("blocked"),
      [task_status |-> "completed"],
      [error |-> "cannot summarise", task_status |-> "failed"] }

SynthesisReplies == {RAISES, Prose, ListText} \cup {Json(o) : o \in SynthesisObjects}

PreprocessReplies ==
    { RAISES, Prose,
      Json([keywords |-> << "vehicles", "munich" >>, task_category |-> "detection"]) }

\* what a tool invocation may give back
ToolResults ==
    { [status |-> "success", bbox |-> "bbox", center |-> "center"],
      [status |-> "error"],
      [status |-> "not_implemented"] }

Returns(r) == [form |-> "returns", obj |-> r]

ToolOutcomes == {RAISES} \cup {Returns(r) : r \in ToolResults}

Situations == { [task_description |-> TaskText], [task_description |-> ""], EmptyMap }

-----------------------------------------------------------------------------
(* Memory modules (agent/memory) *)

\* a success_rate r is the integer r * RateOne: the moving average of
\* update_success_rate divides by 5 once per call, and RateOne keeps MaxCalls
\* such steps exact
RateOne == 100 * 5^MaxCalls

\* 0.5
HalfRate == RateOne \div 2

\* results.sort(key=relevance_score, reverse=True): the sort is stable, so
\* results[i] comes before results[j] when it scores higher, or the same and i < j
SortByScore(results) ==
    LET n == Len(results)
        Before(i, j) ==
            \/ results[i].relevance_score > results[j].relevance_score
            \/ results[i].relevance_score = results[j].relevance_score /\ i < j
        Rank(i) == Cardinality({j \in 1..n : Before(j, i)}) + 1
    IN  [k \in 1..n |-> results[CHOOSE i \in 1..n : Rank(i) = k]]

\* results[:limit]
Truncate(results, limit) ==
    SubSeq(results, 1, IF Len(results) < limit THEN Len(results) ELSE limit)

Entries(results) == [i \in 1..Len(results) |-> results[i].entry]

\* open(file_path, 'w') followed by f.write(...) in BaseMemory.save: the file is
\* written, or open raises and the file stays, or the write raises after open
\* has emptied the file; save() catches the exception
DiskStates == {"writes", "refuses", "truncates"}

\* BaseMemory.save of a persistent module: the entries the file holds afterwards
Save(data, file) ==
    CASE disk = "writes" -> data
      [] disk = "refuses" -> file
      [] disk = "truncates" -> << >>

\* BaseMemory._add_timestamp
AddTimestamp(entry) == Put(Put(entry, "created_at", "now"), "updated_at", "now")

\* BaseMemory._generate_id
GenerateId(memory_type, uid) == [memory_type |-> memory_type, uid |-> uid]

WithId(entry, memory_type, uid) ==
    IF "id" \in DOMAIN entry THEN entry ELSE Put(entry, "id", GenerateId(memory_type, uid))

\* a store that accepts the entry without keeping it
EpisodicStoreDropped(data, entry, uid) ==
    [raised |-> FALSE, data |-> data, id |-> GenerateId("episodic", uid),
     entry |-> entry]

\* EpisodicMemory.store: the outcome for the collection `data`; `entry` is the
\* caller's record as the call leaves it (store writes into the record it is given)
EpisodicStore(data, entry, uid) ==
    LET e == WithId(AddTimestamp(entry), "episodic", uid)
    IN  IF "task" \notin DOMAIN e
        THEN [raised |-> TRUE, data |-> data, id |-> NONE, entry |-> e]
        ELSE [raised |-> FALSE, data |-> Append(data, e), id |-> e["id"], entry |-> e]

\* a store that appends the fact before it checks its fields
SemanticStoreLate(data, entry, uid) ==
    LET e == WithId(AddTimestamp(entry), "semantic", uid)
    IN  [raised |-> "concept" \notin DOMAIN e \/ "content" \notin DOMAIN e,
         data |-> Append(data, e), id |-> e["id"], entry |-> e]

\* SemanticMemory.store
SemanticStore(data, entry, uid) ==
    LET e  == WithId(AddTimestamp(entry), "semantic", uid)
        e1 == IF "tags" \in DOMAIN e THEN e ELSE Put(e, "tags", << >>)
    IN  IF "concept" \notin DOMAIN e \/ "content" \notin DOMAIN e
        THEN [raised |-> TRUE, data |-> data, id |-> NONE, entry |-> e]
        ELSE [raised |-> FALSE, data |-> Append(data, e1), id |-> e["id"], entry |-> e1]

\* ProceduralMemory.store
ProceduralStore(data, entry, uid) ==
    LET e  == WithId(AddTimestamp(entry), "procedural", uid)
        e1 == IF "success_rate" \in DOMAIN e THEN e ELSE Put(e, "success_rate", HalfRate)
        e2 == IF "usage_count" \in DOMAIN e1 THEN e1 ELSE Put(e1, "usage_count", 0)
    IN  IF "procedure_type" \notin DOMAIN e \/ "name" \notin DOMAIN e
        THEN [raised |-> TRUE, data |-> data, id |-> NONE, entry |-> e]
        ELSE [raised |-> FALSE, data |-> Append(data, e2), id |-> e["id"], entry |-> e2]

\* `region_name.lower()` raises AttributeError: None has no method lower
LowerRaises(region_name) == region_name = NONE

\* SemanticMemory.store_region_info
RegionFact(region_name, bbox, center, metadata) ==
    [concept |-> "region", entity |-> region_name, fact_type |-> "bounding_box",
     content |-> IF region_name = "Munich" THEN "Munich bounding box"
                 ELSE "unknown bounding box",
     data |-> [bbox |-> bbox, center |-> center, metadata |-> metadata],
     tags |-> << "region", "geography", Lower(region_name) >>
              \o Get(metadata, "tags", << >>),
     source |-> "region_mapper_tool"]

\* the number of entries k of the list keywords with `k.lower() in text`
RECURSIVE KeywordHits(_, _)
KeywordHits(keywords, text) ==
    IF keywords = << >> THEN 0
    ELSE (IF Lower(Head(keywords)) \in Mentions(text) THEN 1 ELSE 0)
         + KeywordHits(Tail(keywords), text)

\* the number of entries of the list wanted that are in the collection names
RECURSIVE MemberHits(_, _)
MemberHits(wanted, names) ==
    IF wanted = << >> THEN 0
    ELSE (IF Head(wanted) \in names THEN 1 ELSE 0) + MemberHits(Tail(wanted), names)

\* the names of an episode's actions
EpisodeToolNames(episode) ==
    LET episode_tools == Get(episode, "actions", << >>)
    IN  {Get(episode_tools[i], "tool", Get(episode_tools[i], "action", "")) :
            i \in 1..Len(episode_tools)}

EpisodeScore(episode, task_keywords_, tools_used) ==
    KeywordHits(task_keywords_, Get(episode, "task", ""))
    + 2 * MemberHits(tools_used, EpisodeToolNames(episode))

\* a scan that does not stop at `limit` results: the whole collection is scored
RECURSIVE EpisodicScanWhole(_, _, _, _, _)
EpisodicScanWhole(data, i, query, limit, results) ==
    IF i = 0 THEN results
    ELSE LET episode == data[i]
             task_keywords_ == Get(query, "task_keywords", << >>)
             tools_used == Get(query, "tools_used", << >>)
             min_confidence == Get(query, "min_confidence", 0)
             score == EpisodeScore(episode, task_keywords_, tools_used)
         IN  IF min_confidence > 0 /\ Get(episode, "confidence", 0) < min_confidence
             THEN EpisodicScanWhole(data, i - 1, query, limit, results)
             ELSE IF score > 0 \/ (task_keywords_ = << >> /\ tools_used = << >>)
                  THEN EpisodicScanWhole(data, i - 1, query, limit,
                          Append(results, [entry |-> episode, relevance_score |-> score]))
                  ELSE EpisodicScanWhole(data, i - 1, query, limit, results)

\* the loop of EpisodicMemory.retrieve over reversed(self.data), from index i down
RECURSIVE EpisodicScan(_, _, _, _, _)
EpisodicScan(data, i, query, limit, results) ==
    IF i = 0 THEN results
    ELSE LET episode == data[i]
             task_keywords_ == Get(query, "task_keywords", << >>)
             tools_used == Get(query, "tools_used", << >>)
             min_confidence == Get(query, "min_confidence", 0)
             score == EpisodeScore(episode, task_keywords_, tools_used)
         IN  IF min_confidence > 0 /\ Get(episode, "confidence", 0) < min_confidence
             THEN EpisodicScan(data, i - 1, query, limit, results)
             ELSE IF score > 0 \/ (task_keywords_ = << >> /\ tools_used = << >>)
                  THEN LET grown == Append(results,
                                      [entry |-> episode, relevance_score |-> score])
                       IN  IF Len(grown) >= limit THEN grown
                           ELSE EpisodicScan(data, i - 1, query, limit, grown)
                  ELSE EpisodicScan(data, i - 1, query, limit, results)

\* a retrieve that hands out the oldest entries, in the order of storage
EpisodicRetrieveOldestFirst(data, query, limit) == Truncate(data, limit)

\* EpisodicMemory.retrieve
EpisodicRetrieve(data, query, limit) ==
    LET Ranked(results) == Entries(Truncate(SortByScore(results), limit))
    IN  CHOOSE found \in {Ranked(results) :
                             results \in {EpisodicScan(data, Len(data), query, limit,
                                                       << >>)}} : TRUE

\* [t.lower() for t in tags] as a collection
LowerAll(tags) == {Lower(tags[i]) : i \in 1..Len(tags)}

FactScore(fact, query) ==
    LET concept == Lower(Get(query, "concept", ""))
        entity == Lower(Get(query, "entity", ""))
        fact_type == Lower(Get(query, "fact_type", ""))
    IN  (IF concept # "" /\ concept = Lower(Get(fact, "concept", "")) THEN 3 ELSE 0)
        + (IF entity # "" /\ entity = Lower(Get(fact, "entity", "")) THEN 3 ELSE 0)
        + (IF fact_type # "" /\ fact_type = Lower(Get(fact, "fact_type", "")) THEN 1 ELSE 0)
        + 2 * MemberHits([i \in 1..Len(Get(query, "tags", << >>)) |->
                              Lower(Get(query, "tags", << >>)[i])],
                         LowerAll(Get(fact, "tags", << >>)))
        + KeywordHits(Get(query, "keywords", << >>), Get(fact, "content", ""))

\* the loop of SemanticMemory.retrieve over self.data, from index i up
RECURSIVE SemanticScan(_, _, _, _)
SemanticScan(data, i, query, results) ==
    IF i > Len(data) THEN results
    ELSE LET score == FactScore(data[i], query)
             open == /\ Get(query, "concept", "") = ""
                     /\ Get(query, "entity", "") = ""
                     /\ Get(query, "tags", << >>) = << >>
                     /\ Get(query, "keywords", << >>) = << >>
         IN  SemanticScan(data, i + 1, query,
                 IF score > 0 \/ open
                 THEN Append(results, [entry |-> data[i], relevance_score |-> score])
                 ELSE results)

\* SemanticMemory.retrieve
SemanticRetrieve(data, query, limit) ==
    LET Ranked(results) == Entries(Truncate(SortByScore(results), limit))
    IN  CHOOSE found \in {Ranked(results) :
                             results \in {SemanticScan(data, 1, query, << >>)}} : TRUE

\* a procedure's pattern is a list ([list |-> items]) or a mapping
PatternList(items) == [list |-> items]

PatternItems(proc) ==
    IF "pattern" \notin DOMAIN proc THEN {}
    ELSE IF "list" \in DOMAIN proc["pattern"]
         THEN {proc["pattern"]["list"][i] : i \in 1..Len(proc["pattern"]["list"])}
         ELSE {}

\* the number of keywords found in the procedure's context or description
RECURSIVE ContextHits(_, _)
ContextHits(keywords, proc) ==
    IF keywords = << >> THEN 0
    ELSE (IF Lower(Head(keywords)) \in
                Mentions(Get(proc, "context", "")) \cup Mentions(Get(proc, "description", ""))
          THEN 1 ELSE 0)
         + ContextHits(Tail(keywords), proc)

\* scores of procedures are in units of 1 / RateOne
ProcedureScore(proc, query) ==
    LET procedure_type == Lower(Get(query, "procedure_type", ""))
    IN  (IF procedure_type # "" /\ procedure_type = Lower(Get(proc, "procedure_type", ""))
         THEN 3 * RateOne ELSE 0)
        + 2 * RateOne * ContextHits(Get(query, "context_keywords", << >>), proc)
        + 2 * RateOne * MemberHits(Get(query, "tools", << >>), PatternItems(proc))
        + 2 * Get(proc, "success_rate", HalfRate)

\* the loop of ProceduralMemory.retrieve over self.data, from index i up
RECURSIVE ProceduralScan(_, _, _, _)
ProceduralScan(data, i, query, results) ==
    IF i > Len(data) THEN results
    ELSE LET proc == data[i]
             min_success_rate == Get(query, "min_success_rate", 0)
             score == ProcedureScore(proc, query)
             open == /\ Get(query, "procedure_type", "") = ""
                     /\ Get(query, "context_keywords", << >>) = << >>
                     /\ Get(query, "tools", << >>) = << >>
         IN  IF min_success_rate > 0 /\ Get(proc, "success_rate", 0) < min_success_rate
             THEN ProceduralScan(data, i + 1, query, results)
             ELSE ProceduralScan(data, i + 1, query,
                      IF score > 0 \/ open
                      THEN Append(results, [entry |-> proc, relevance_score |-> score])
                      ELSE results)

\* ProceduralMemory.retrieve
ProceduralRetrieve(data, query, limit) ==
    LET Ranked(results) == Entries(Truncate(SortByScore(results), limit))
    IN  CHOOSE found \in {Ranked(results) :
                             results \in {ProceduralScan(data, 1, query, << >>)}} : TRUE

\* the facts SemanticMemory._initialize_default_knowledge stores
DefaultFacts ==
    << [concept |-> "region", entity |-> "Bayern", fact_type |-> "location",
        content |-> "Bayern is the largest state in Germany",
        tags |-> << "germany", "europe", "bayern", "bavaria" >>,
        source |-> "default_initialization"],
       [concept |-> "region", entity |-> "Munich", fact_type |-> "location",
        content |-> "Munich is the capital of Bayern, coordinates approximately",
        tags |-> << "munich", "bayern", "city", "capital" >>,
        source |-> "default_initialization"],
       [concept |-> "region", entity |-> "Alps", fact_type |-> "geography",
        content |-> "The Alps mountain range forms the southern border of Bayern",
        tags |-> << "alps", "mountains", "bayern", "geography" >>,
        source |-> "default_initialization"],
       [concept |-> "region", entity |-> "Isar", fact_type |-> "geography",
        content |-> "The Isar river flows through Munich from south to north",
        tags |-> << "isar", "river", "munich", "water" >>,
        source |-> "default_initialization"],
       [concept |-> "constraint", entity |-> "cloud_cover", fact_type |-> "weather",
        content |-> "Bayern typically has moderate cloud cover; Alps region",
        tags |-> << "weather", "clouds", "alps", "bayern" >>,
        source |-> "default_initialization"] >>

\* the procedures ProceduralMemory._initialize_default_procedures stores
DefaultProcedures ==
    << [procedure_type |-> "tool_sequence", name |-> "region_to_detection",
        description |-> "Standard workflow: Map region first, then detect objects",
        pattern |-> PatternList(<< "region_mapper", "object_detector" >>),
        context |-> "When task involves detecting objects in a named region",
        success_rate |-> RateOne, usage_count |-> 0],
       [procedure_type |-> "tool_sequence", name |-> "image_to_detection",
        description |-> "Process image before running detection",
        pattern |-> PatternList(<< "image_processor", "object_detector" >>),
        context |-> "When working with raw satellite imagery",
        success_rate |-> RateOne, usage_count |-> 0],
       [procedure_type |-> "strategy", name |-> "region_expansion",
        description |-> "For large regions like Bayern, use moderate bbox expansion",
        pattern |-> [tool |-> "region_mapper", parameter |-> "expand_bbox"],
        context |-> "Querying large geographic areas",
        success_rate |-> RateOne, usage_count |-> 0],
       [procedure_type |-> "prompt_template", name |-> "region_query_extraction",
        description |-> "Effective prompt for extracting region names from user queries",
        context |-> "When user query mentions a location",
        success_rate |-> RateOne, usage_count |-> 0] >>

\* `for fact in default_facts: self.store(fact)`, ids counted from uid
RECURSIVE StoreFacts(_, _, _)
StoreFacts(data, facts, uid) ==
    IF facts = << >> THEN data
    ELSE StoreFacts(SemanticStore(data, Head(facts), uid).data, Tail(facts), uid + 1)

\* `for proc in default_procedures: self.store(proc)`, ids counted from uid
RECURSIVE StoreProcedures(_, _, _)
StoreProcedures(data, procs, uid) ==
    IF procs = << >> THEN data
    ELSE StoreProcedures(ProceduralStore(data, Head(procs), uid).data, Tail(procs), uid + 1)

\* file_path as handed to the constructor of a module: a path with a directory
\* part, or a bare file name
FilePaths == {"data/memory/memory.toon", "memory.toon"}

\* os.path.dirname(file_path)
Dirname(file_path) == IF file_path = "memory.toon" THEN "" ELSE "data/memory"

\* os.makedirs(name, exist_ok=True) raises FileNotFoundError on the empty name
MakedirsRaises(name) == name = ""

\* the backing file as the constructor finds it: no file, a file that
\* ToonFormatter.loads cannot decode, or the file the module wrote last
FileContents == {"absent", "undecodable", "entries"}

\* the entries a file of the given content holds
Held(content, file) == IF content = "entries" THEN file ELSE << >>

\* BaseMemory.load: self.data after the call
Load(content, file) ==
    CASE content = "absent" -> << >>
      [] content = "undecodable" -> << >>
      [] content = "entries" -> file

\* the entries a module seeds itself with
Defaults(m) ==
    CASE m = "episodic" -> << >>
      [] m = "semantic" -> DefaultFacts
      [] m = "procedural" -> DefaultProcedures

\* a constructor that stores its defaults whatever the store holds
SeededAlways(m, data, uid) ==
    CASE m = "episodic" -> data
      [] m = "semantic" -> StoreFacts(data, DefaultFacts, uid)
      [] m = "procedural" -> StoreProcedures(data, DefaultProcedures, uid)

\* _initialize_default_knowledge and _initialize_default_procedures:
\* `if len(self.data) == 0`, then the defaults are stored one by one
Seeded(m, data, uid) ==
    IF Len(data) # 0 THEN data
    ELSE CASE m = "episodic" -> data
           [] m = "semantic" -> StoreFacts(data, DefaultFacts, uid)
           [] m = "procedural" -> StoreProcedures(data, DefaultProcedures, uid)

\* BaseMemory.__init__ and the constructor of the module m on top of it
Construct(m, file_path, content, file, uid) ==
    IF MakedirsRaises(Dirname(file_path))
    THEN [raised |-> TRUE, data |-> << >>, file |-> Held(content, file), used |-> 0]
    ELSE LET loaded == Load(content, file)
             seeded == Seeded(m, loaded, uid)
         IN  [raised |-> FALSE, data |-> seeded,
              file |-> IF seeded # loaded THEN Save(seeded, Held(content, file))
                       ELSE Held(content, file),
              used |-> Len(seeded) - Len(loaded)]

\* the index of the first entry of data with entry.get('id') == entry_id, or 0
HasId(entry, entry_id) == "id" \in DOMAIN entry /\ entry["id"] = entry_id

IndexOfId(data, entry_id) ==
    IF \E i \in 1..Len(data) : HasId(data[i], entry_id)
    THEN CHOOSE i \in 1..Len(data) :
            /\ HasId(data[i], entry_id)
            /\ \A j \in 1..(i - 1) : ~HasId(data[j], entry_id)
    ELSE 0

\* dict.update: the keys of updates are set in entry, the others stay
Merge(entry, updates) ==
    [k \in DOMAIN entry \cup DOMAIN updates |->
        IF k \in DOMAIN updates THEN updates[k] ELSE entry[k]]

\* BaseMemory.update: the collection afterwards and the value returned
Update(data, entry_id, updates) ==
    LET i == IndexOfId(data, entry_id)
    IN  IF i = 0 THEN [returned |-> FALSE, data |-> data]
        ELSE [returned |-> TRUE,
              data |-> [data EXCEPT ![i] = Put(Merge(data[i], updates),
                                               "updated_at", "now")]]

\* BaseMemory.clear
Clear(data) == << >>

\* BaseMemory.get_by_id: a copy of the first entry with the id, or None
GetById(data, entry_id) ==
    LET i == IndexOfId(data, entry_id)
    IN  IF i = 0 THEN NONE ELSE data[i]

\* ProceduralMemory.increment_usage
IncrementUsage(data, entry_id) ==
    LET i == IndexOfId(data, entry_id)
    IN  IF i = 0 THEN [returned |-> FALSE, data |-> data]
        ELSE [returned |-> TRUE,
              data |-> [data EXCEPT ![i] = Put(data[i], "usage_count",
                                               Get(data[i], "usage_count", 0) + 1)]]

\* an update that overwrites the rate with the outcome
MovingAverageRaw(current_rate, success) == IF success THEN RateOne ELSE 0

\* new_rate = alpha * (1.0 if success else 0.0) + (1 - alpha) * current_rate
\* with alpha = 0.2, which is (success + 4 * current_rate) / 5
MovingAverage(current_rate, success) ==
    ((IF success THEN RateOne ELSE 0) + 4 * current_rate) \div 5

\* ProceduralMemory.update_success_rate
UpdateSuccessRate(data, entry_id, success) ==
    LET i == IndexOfId(data, entry_id)
    IN  IF i = 0 THEN [returned |-> FALSE, data |-> data]
        ELSE [returned |-> TRUE,
              data |-> [data EXCEPT ![i] =
                          Put(data[i], "success_rate",
                              MovingAverage(Get(data[i], "success_rate", HalfRate),
                                            success))]]

-----------------------------------------------------------------------------
(* Working memory (agent/memory/working_memory.py) *)

\* WorkingMemory.add_intermediate_result
AddIntermediateResult(state, key, value) ==
    Put(state, "intermediate_results",
        Put(Get(state, "intermediate_results", EmptyMap), key, value))

\* WorkingMemory.update_confidence
UpdateConfidence(state, confidence) == Put(state, "confidence", confidence)

\* WorkingMemory.set_current_task, on the state reset() leaves
SetCurrentTask(task) == [task |-> task, task_start_time |-> "now"]

\* WorkingMemory.store, as reset() calls it
ArchiveState(data, state, uid) ==
    IF state = EmptyMap THEN data
    ELSE Append(data, WithId(AddTimestamp([type |-> "completed_state", state |-> state]),
                             "working", uid))

IntermediateResults(state) == Get(state, "intermediate_results", EmptyMap)

ToolResultKey(action_name) ==
    CASE action_name = "region_mapper" -> "tool_result_region_mapper"
      [] action_name = "object_detector" -> "tool_result_object_detector"

-----------------------------------------------------------------------------
(* The cycle controller (agent/coala_reasoning_engine.py) *)

CycleStep(cycle_number, state, action_selected, action_type, results, confidence) ==
    [cycle_number |-> cycle_number, state |-> state,
     action_selected |-> action_selected, action_type |-> action_type,
     results |-> results, confidence |-> confidence]

\* CycleStep.to_dict
ToDict(step) ==
    [cycle |-> step.cycle_number, state |-> step.state,
     action_selected |-> step.action_selected, action_type |-> step.action_type,
     results |-> step.results, confidence |-> step.confidence]

Trace(history) == [i \in 1..Len(history) |-> ToDict(history[i])]

\* self.cycle_history.append(step)
AppendStep(history, step) == Append(history, step)

\* a loop that runs one cycle past the budget
LoopGuardLate(cycle, budget) == cycle <= budget + 1

\* a loop that still runs when the counter has reached the budget
LoopGuardInclusive(cycle, budget) == cycle <= budget

\* the condition of the while loop of reason()
LoopGuard(cycle, budget) == cycle < budget

\* a controller that does not count its cycles
NextCycleStays(cycle) == cycle

\* self.current_cycle += 1
NextCycle(cycle) == cycle + 1

\* a controller that leaves INITIAL without planning
StateAfterInitialSkipsPlanning == EXECUTION

\* the state reason() leaves INITIAL for
StateAfterInitial == PLANNING

\* a controller that runs an Execution phase after every Planning phase
StateAfterPlanningExecutes(action_to_execute) == EXECUTION

\* the state reason() moves to on what _planning_cycle returned
StateAfterPlanning(action_to_execute) ==
    IF action_to_execute = NONE THEN COMPLETED ELSE EXECUTION

\* a controller that plans again whatever the Execution phase returned
StateAfterExecutionPlans(should_continue, cycle, budget) == PLANNING

\* the state reason() moves to on what _execution_cycle returned
StateAfterExecution(should_continue, cycle, budget) ==
    IF should_continue /\ cycle < budget THEN PLANNING ELSE COMPLETED

\* the state the except clause of reason() sets
StateOnFault == ERROR

\* a planning phase that looks at next_action only
ActionToExecuteUnlessNull(next_action, task_complete) ==
    IF next_action = NONE THEN NONE ELSE next_action

\* what _planning_cycle returns for a decision
ActionToExecute(next_action, task_complete) ==
    IF task_complete \/ next_action = NONE THEN NONE ELSE next_action

\* an execution phase that ends the run after every step
ShouldContinueNever(cycle, budget) == FALSE

\* what _execution_cycle returns after a recorded step
ShouldContinue(cycle, budget) == cycle < budget

\* a retry loop that changes the model after the third attempt
RetryLLMAfterThird(total_attempts, attempt_) ==
    IF total_attempts + attempt_ + 1 > 3 THEN "general_llm" ELSE "reasoning_llm"

\* the model asked by the retry with index attempt_ of _parse_data_with_retry
RetryLLM(total_attempts, attempt_) ==
    IF total_attempts + attempt_ + 1 >= 3 THEN "general_llm" ELSE "reasoning_llm"

\* the tool_results and actions_executed _synthesize_final_result collects
Executed(step) == step.state = EXECUTION /\ Truthy(step.action_selected)

\* a synthesis that keeps the first result of a repeated action
ToolResultsFirst(history) ==
    LET recorded == {i \in 1..Len(history) :
                        /\ Executed(history[i])
                        /\ "action_result" \in DOMAIN history[i].results}
        First(name) == CHOOSE i \in recorded :
                         /\ history[i].action_selected = name
                         /\ \A j \in recorded :
                               history[j].action_selected = name => i <= j
    IN  [name \in {history[i].action_selected : i \in recorded} |->
            history[First(name)].results["action_result"]]

\* a later assignment to tool_results[name] replaces an earlier one
ToolResultsOf(history) ==
    LET recorded == {i \in 1..Len(history) :
                        /\ Executed(history[i])
                        /\ "action_result" \in DOMAIN history[i].results}
        Last(name) == CHOOSE i \in recorded :
                        /\ history[i].action_selected = name
                        /\ \A j \in recorded :
                              history[j].action_selected = name => j <= i
    IN  [name \in {history[i].action_selected : i \in recorded} |->
            history[Last(name)].results["action_result"]]

ActionsExecuted(history) ==
    LET steps == SelectSeq(history, Executed)
    IN  [i \in 1..Len(steps) |-> steps[i].action_selected]

\* the actions_taken _store_episode collects
Selected(step) == Truthy(step.action_selected)

ActionsTaken(history) ==
    LET steps == SelectSeq(history, Selected)
    IN  [i \in 1..Len(steps) |->
            [action |-> steps[i].action_selected, type |-> steps[i].action_type,
             cycle |-> steps[i].cycle_number]]

\* the fallback report of _synthesize_final_result
TemplateReport(final_confidence) ==
    [situation_summary |-> "Completed task", analysis |-> "Executed actions",
     recommendations |-> << "Review results" >>, confidence |-> final_confidence,
     task_status |-> "completed"]

\* the four fields _synthesize_final_result sets on the report
WithRunFields(report, history, cycle) ==
    [k \in DOMAIN report \cup {"reasoning_trace", "tool_results", "total_cycles",
                               "actions_executed"} |->
        CASE k = "reasoning_trace" -> Trace(history)
          [] k = "tool_results" -> ToolResultsOf(history)
          [] k = "total_cycles" -> cycle
          [] k = "actions_executed" -> ActionsExecuted(history)
          [] OTHER -> report[k]]

\* the episode _store_episode builds
RunEpisode(task, history, result, cycle) ==
    [task |-> task, actions |-> ActionsTaken(history),
     results |-> Get(result, "tool_results", EmptyMap),
     outcome |-> Get(result, "task_status", "completed"),
     confidence |-> Get(result, "confidence", DefaultConfidence),
     reasoning_trace |-> Trace(history), cycles |-> cycle]

PriorEpisode ==
    [task |-> TaskText, actions |-> << >>, results |-> EmptyMap,
     outcome |-> "completed", confidence |-> 90, reasoning_trace |-> << >>,
     cycles |-> 1, created_at |-> "then", updated_at |-> "then",
     id |-> GenerateId("episodic", 0)]

Modules == {"episodic", "semantic", "procedural"}

\* the record of the calls made on the module `memory` from outside reason():
\* how many, and for the last one its name, its arguments, whether it raised,
\* what it returned, and the entry it addressed as it was before the call
Idle(memory) ==
    [n |-> 0, memory |-> memory, op |-> "none", arg |-> NONE, id |-> NONE,
     raised |-> FALSE, returned |-> NONE, before |-> NONE]

\* no module is called from outside reason()
NoCall == Idle(NONE)

-----------------------------------------------------------------------------
(* Construction *)

\* the memories and the controller as their constructors leave them
Constructed ==
    /\ pc = "idle"
    /\ call_status = "none"
    /\ original_task = ""
    /\ task_keywords = << >>
    /\ current_cycle = 0
    /\ current_state = NONE
    /\ cycle_history = << >>
    /\ wm_state = EmptyMap
    /\ wm_data = << >>
    /\ episodic \in {<< >>, << PriorEpisode >>}
    /\ semantic = StoreFacts(<< >>, DefaultFacts, 1)
    /\ procedural = StoreProcedures(<< >>, DefaultProcedures, 6)
    /\ next_uid = 10
    /\ final_result = EmptyMap
    /\ attempt = 0
    /\ retry_llm = NONE
    /\ plan_phases = 0
    /\ exec_phases = 0
    /\ fault = "none"
    /\ episodes_at_call = 0
    /\ tool_raised = NONE
    /\ other_call = "none"
    /\ episodic_file = episodic
    /\ semantic_file = semantic
    /\ procedural_file = procedural
    /\ disk = "writes"

\* CoALAActionSpace.__init__ on a catalog; no execute_action call was made
Registered(catalog) ==
    /\ tools = catalog
    /\ actions = Registry(catalog)
    /\ exec_call = [n |-> 0, name |-> NONE, parameters |-> NONE, error |-> "none",
                    invoked |-> 0, returned |-> NONE]

Init ==
    /\ max_cycles \in 0..MaxBudget
    /\ mem_call = NoCall
    /\ Registered(DefaultCatalog)
    /\ Constructed

-----------------------------------------------------------------------------
(* reason(): entry and preprocessing *)

\* lines 132-140 and 146, up to the request _preprocess_task awaits
Reason(situation_data) ==
    LET task == Get(situation_data, "task_description", "")
    IN  /\ pc = "idle"
        /\ call_status = "none"
        /\ call_status' = "running"
        /\ original_task' = task
        /\ cycle_history' = << >>
        /\ current_cycle' = 0
        /\ wm_data' = ArchiveState(wm_data, wm_state, next_uid)
        /\ next_uid' = IF wm_state = EmptyMap THEN next_uid ELSE next_uid + 1
        /\ wm_state' = SetCurrentTask(task)
        /\ episodes_at_call' = Len(episodic)
        /\ plan_phases' = 0
        /\ exec_phases' = 0
        /\ fault' = "none"
        /\ tool_raised' = NONE
        /\ IF task = ""
           THEN /\ task_keywords' = << >>
                /\ current_state' = INITIAL
                /\ pc' = "loop"
           ELSE /\ pc' = "preprocess"
                /\ UNCHANGED << task_keywords, current_state >>
        /\ UNCHANGED << outside, retry_llm, durable, max_cycles, episodic, semantic, procedural, final_result,
                        attempt >>

\* _preprocess_task from the answer of general_llm on, then line 146
Preprocess(reply) ==
    LET parsed == ParseData(reply)
        usable == /\ reply # RAISES
                  /\ parsed.isdict
                  /\ "error" \notin DOMAIN parsed.value
                  /\ "keywords" \in DOMAIN parsed.value
    IN  /\ pc = "preprocess"
        /\ IF usable
           THEN /\ task_keywords' = parsed.value["keywords"]
                /\ wm_state' =
                     AddIntermediateResult(
                       AddIntermediateResult(wm_state, "task_category",
                                             Get(parsed.value, "task_category", "")),
                       "extracted_entities", Get(parsed.value, "entities", EmptyMap))
           ELSE /\ task_keywords' = Split(original_task)
                /\ wm_state' = wm_state
        /\ current_state' = INITIAL
        /\ pc' = "loop"
        /\ UNCHANGED << outside, retry_llm, durable, max_cycles, call_status, original_task, current_cycle,
                        cycle_history, wm_data, episodic, semantic, procedural,
                        next_uid, final_result, attempt, plan_phases, exec_phases,
                        fault, episodes_at_call, tool_raised >>

-----------------------------------------------------------------------------
(* reason(): the loop *)

\* lines 150-153
LoopInitial ==
    /\ pc = "loop"
    /\ LoopGuard(current_cycle, max_cycles)
    /\ current_state = INITIAL
    /\ current_state' = StateAfterInitial
    /\ current_cycle' = 1
    /\ UNCHANGED << outside, retry_llm, durable, max_cycles, pc, call_status, original_task, task_keywords,
                    cycle_history, wm_state, wm_data, episodic, semantic, procedural,
                    next_uid, final_result, attempt, plan_phases, exec_phases, fault,
                    episodes_at_call, tool_raised >>

\* the except clause of reason(), lines 180-185: an exception left `phase`
Faulted(phase) ==
    /\ current_state' = StateOnFault
    /\ fault' = phase
    /\ attempt' = 0
    /\ pc' = "synthesis"

\* _planning_cycle lines 211-227: the three retrievals and their counts
AfterRetrieval(state) ==
    LET keywords == IF task_keywords # << >> THEN task_keywords
                    ELSE Split(original_task)
        past_episodes == EpisodicRetrieve(episodic, [task_keywords |-> keywords], 3)
        relevant_facts == SemanticRetrieve(semantic, [keywords |-> keywords], 5)
        relevant_procedures ==
            ProceduralRetrieve(procedural, [context_keywords |-> keywords], 3)
    IN  AddIntermediateResult(
          AddIntermediateResult(
            AddIntermediateResult(state, "retrieved_episodes", Len(past_episodes)),
            "retrieved_facts", Len(relevant_facts)),
          "retrieved_procedures", Len(relevant_procedures))

\* _planning_cycle lines 287-314 and reason() lines 158-162, for the decision `plan`
FinishPlanning(plan, state) ==
    LET next_action == Get(plan, "next_action", NONE)
        task_complete == Get(plan, "task_complete", FALSE)
        confidence == ParseConfidence(Get(plan, "confidence", Number(DefaultConfidence)))
        step == CycleStep(current_cycle, PLANNING, next_action,
                          IF Truthy(next_action) THEN "grounding" ELSE "none",
                          [plan |-> plan], confidence)
        action_to_execute == ActionToExecute(next_action, task_complete)
        scored == UpdateConfidence(state, confidence)
    IN  /\ pc' = "loop"
        /\ attempt' = 0
        /\ fault' = fault
        /\ current_state' = StateAfterPlanning(action_to_execute)
        /\ cycle_history' = AppendStep(cycle_history, step)
        /\ wm_state' =
             IF action_to_execute = NONE THEN scored
             ELSE AddIntermediateResult(
                    AddIntermediateResult(scored, "selected_action", next_action),
                    "action_parameters", Get(plan, "parameters", EmptyMap))

\* reason() lines 155-156 and _planning_cycle up to the answer to its request
PlanningCycle(reply) ==
    /\ pc = "loop"
    /\ LoopGuard(current_cycle, max_cycles)
    /\ current_state = PLANNING
    /\ \E parsed \in {ParseData(reply)} :
        /\ plan_phases' = plan_phases + 1
        /\ IF reply = RAISES \/ ~parsed.isdict
           THEN /\ Faulted("planning")
                /\ UNCHANGED cycle_history
                /\ wm_state' = AfterRetrieval(wm_state)
           ELSE IF HasError(parsed) /\ MaxRetries > 0
                THEN /\ pc' = "planning_retry"
                     /\ attempt' = 0
                     /\ UNCHANGED << cycle_history, current_state, fault >>
                     /\ wm_state' = AfterRetrieval(wm_state)
                ELSE FinishPlanning(parsed.value, AfterRetrieval(wm_state))
        /\ retry_llm' = IF pc' = "planning_retry" THEN RetryLLM(1, attempt') ELSE NONE
        /\ UNCHANGED << outside, durable, max_cycles, call_status, original_task, task_keywords,
                        current_cycle, wm_data, episodic, semantic, procedural,
                        next_uid, final_result, exec_phases, episodes_at_call, tool_raised >>

\* one turn of the loop of _parse_data_with_retry called by _planning_cycle
PlanningRetry(reply) ==
    LET parsed == ParseData(reply)
    IN  /\ pc = "planning_retry"
        /\ IF reply = RAISES \/ ~parsed.isdict
           THEN /\ Faulted("planning")
                /\ UNCHANGED << cycle_history, wm_state >>
           ELSE IF HasError(parsed) /\ attempt + 1 < MaxRetries
                THEN /\ attempt' = attempt + 1
                     /\ UNCHANGED << pc, cycle_history, wm_state, current_state, fault >>
                ELSE FinishPlanning(parsed.value, wm_state)
        /\ retry_llm' = IF pc' = "planning_retry" THEN RetryLLM(1, attempt') ELSE NONE
        /\ UNCHANGED << outside, durable, max_cycles, call_status, original_task, task_keywords,
                        current_cycle, wm_data, episodic, semantic, procedural,
                        next_uid, final_result, plan_phases, exec_phases,
                        episodes_at_call, tool_raised >>

\* an execution phase that keeps the region of any tool result with a bbox
StoresRegionOfAnyTool(action_name, result) == "bbox" \in DOMAIN result

\* `if action_name == 'region_mapper' and 'bbox' in result`
StoresRegion(action_name, result) ==
    action_name = "region_mapper" /\ "bbox" \in DOMAIN result

\* the key of action_params a learning action reads its record from
RecordKey(action_name) ==
    CASE action_name = "store_episode" -> "episode"
      [] action_name = "store_fact" -> "fact"
      [] action_name = "store_procedure" -> "procedure"

\* what the body of _execution_cycle makes of the selected action: whether an
\* exception reached its except clause, the result it recorded, the memories, and
\* action_params as the call leaves it (a store writes into the record it is given,
\* and that record is the one held by action_params)
ExecutionEffect(action_name, action_params, outcome) ==
    LET action == ActionSpace[action_name]
        quiet == [raised |-> FALSE, result |-> [status |-> "unsupported_action_type"],
                  state |-> wm_state, episodic |-> episodic, semantic |-> semantic,
                  procedural |-> procedural, used |-> 0, params |-> action_params]
        failed == [quiet EXCEPT !.raised = TRUE]
    IN  IF IsExternal(action)
        THEN IF outcome = RAISES THEN failed
             ELSE LET result == outcome.obj
                      noted == AddIntermediateResult(wm_state, ToolResultKey(action_name),
                                                     result)
                      region_name == Get(action_params, "region_name", "unknown")
                  IN  IF StoresRegion(action_name, result)
                      THEN IF LowerRaises(region_name)
                           THEN [failed EXCEPT !.state = noted]
                           ELSE
                           [quiet EXCEPT
                              !.result = result, !.state = noted, !.used = 1,
                              !.semantic = SemanticStore(semantic,
                                  RegionFact(region_name,
                                             Get(result, "bbox", << >>),
                                             Get(result, "center", << >>), result),
                                  next_uid).data]
                      ELSE [quiet EXCEPT !.result = result, !.state = noted]
        ELSE IF IsInternal(action) /\ action.action_type = INTERNAL_LEARNING
             THEN LET key == RecordKey(action_name)
                      record == Get(action_params, key, EmptyMap)
                      stored ==
                        CASE action_name = "store_episode" ->
                               EpisodicStore(episodic, record, next_uid)
                          [] action_name = "store_fact" ->
                               SemanticStore(semantic, record, next_uid)
                          [] action_name = "store_procedure" ->
                               ProceduralStore(procedural, record, next_uid)
                      written == IF key \in DOMAIN action_params
                                 THEN Put(action_params, key, stored.entry)
                                 ELSE action_params
                  IN  IF stored.raised
                      THEN [failed EXCEPT !.used = 1, !.params = written]
                      ELSE [quiet EXCEPT
                              !.result = stored.id, !.used = 1, !.params = written,
                              !.episodic = IF action_name = "store_episode"
                                           THEN stored.data ELSE episodic,
                              !.semantic = IF action_name = "store_fact"
                                           THEN stored.data ELSE semantic,
                              !.procedural = IF action_name = "store_procedure"
                                             THEN stored.data ELSE procedural]
             ELSE quiet

\* the log when action_params has become `params`: the PLANNING step of the
\* cycle holds the decision, and action_params is the decision's "parameters"
SharedParameters(history, params) ==
    IF history = << >> THEN history
    ELSE LET last == history[Len(history)]
         IN  IF last.state = PLANNING /\ "parameters" \in DOMAIN last.results["plan"]
             THEN [history EXCEPT ![Len(history)].results =
                       [plan |-> Put(last.results["plan"], "parameters", params)]]
             ELSE history

\* reason() lines 164-172 with _execution_cycle; outcome is what the tool does
ExecutionCycle(outcome) ==
    LET action_name == Get(IntermediateResults(wm_state), "selected_action", NONE)
        action_params == Get(IntermediateResults(wm_state), "action_parameters", EmptyMap)
        leave(should_continue) ==
            LET target == StateAfterExecution(should_continue, current_cycle, max_cycles)
            IN  /\ current_state' = target
                /\ current_cycle' = IF target = PLANNING THEN NextCycle(current_cycle)
                                    ELSE current_cycle
                /\ UNCHANGED << pc, fault, attempt >>
    IN  /\ pc = "loop"
        /\ LoopGuard(current_cycle, max_cycles)
        /\ current_state = EXECUTION
        /\ exec_phases' = exec_phases + 1
        /\ IF ~Truthy(action_name)
           THEN /\ leave(FALSE)
                /\ UNCHANGED << cycle_history, wm_state, episodic, semantic, procedural,
                                next_uid >>
           ELSE IF action_name = UNHASHABLE
           THEN /\ Faulted("execution")
                /\ UNCHANGED << current_cycle, cycle_history, wm_state, episodic,
                                semantic, procedural, next_uid >>
           ELSE IF action_name \notin DOMAIN ActionSpace
           THEN /\ leave(FALSE)
                /\ UNCHANGED << cycle_history, wm_state, episodic, semantic, procedural,
                                next_uid >>
           ELSE \E effect \in {ExecutionEffect(action_name, action_params, outcome)} :
                LET step == CycleStep(current_cycle, EXECUTION, action_name,
                                      ActionSpace[action_name].action_type,
                                      [action_result |-> effect.result],
                                      ExecutionConfidence)
                    shared == SharedParameters(cycle_history, effect.params)
                IN  IF effect.raised
                    THEN /\ leave(FALSE)
                         /\ cycle_history' = shared
                         /\ wm_state' = AddIntermediateResult(effect.state,
                                            "action_parameters", effect.params)
                         /\ next_uid' = next_uid + effect.used
                         /\ UNCHANGED << episodic, semantic, procedural >>
                    ELSE /\ cycle_history' = AppendStep(shared, step)
                         /\ wm_state' = AddIntermediateResult(effect.state,
                                            "action_parameters", effect.params)
                         /\ episodic' = effect.episodic
                         /\ semantic' = effect.semantic
                         /\ procedural' = effect.procedural
                         /\ next_uid' = next_uid + effect.used
                         /\ leave(ShouldContinue(current_cycle, max_cycles))
        /\ tool_raised' =
             IF /\ Truthy(action_name)
                /\ action_name \in DOMAIN ActionSpace
                /\ IsExternal(ActionSpace[action_name])
                /\ outcome = RAISES
             THEN action_name ELSE tool_raised
        /\ episodic_file' = IF episodic' # episodic THEN Save(episodic', episodic_file)
                            ELSE episodic_file
        /\ semantic_file' = IF semantic' # semantic THEN Save(semantic', semantic_file)
                            ELSE semantic_file
        /\ procedural_file' = IF procedural' # procedural
                              THEN Save(procedural', procedural_file)
                              ELSE procedural_file
        /\ UNCHANGED << outside, retry_llm, max_cycles, call_status, original_task, task_keywords,
                        wm_data, final_result, plan_phases, episodes_at_call >>

\* lines 174-178: reason() leaves the loop by break
LoopBreak ==
    /\ pc = "loop"
    /\ LoopGuard(current_cycle, max_cycles)
    /\ current_state \notin {INITIAL, PLANNING, EXECUTION}
    /\ pc' = "synthesis"
    /\ UNCHANGED << outside, retry_llm, durable, max_cycles, call_status, original_task, task_keywords,
                    current_cycle, current_state, cycle_history, wm_state, wm_data,
                    episodic, semantic, procedural, next_uid, final_result, attempt,
                    plan_phases, exec_phases, fault, episodes_at_call, tool_raised >>

\* line 148: the condition of the loop is false
LoopExit ==
    /\ pc = "loop"
    /\ ~LoopGuard(current_cycle, max_cycles)
    /\ pc' = "synthesis"
    /\ UNCHANGED << outside, retry_llm, durable, max_cycles, call_status, original_task, task_keywords,
                    current_cycle, current_state, cycle_history, wm_state, wm_data,
                    episodic, semantic, procedural, next_uid, final_result, attempt,
                    plan_phases, exec_phases, fault, episodes_at_call, tool_raised >>

-----------------------------------------------------------------------------
(* reason(): synthesis, the episode, the return *)

\* an exception raised under line 187 leaves reason(): nothing catches it
Escapes ==
    /\ call_status' = "raised"
    /\ pc' = "idle"
    /\ attempt' = 0
    /\ UNCHANGED final_result

\* _synthesize_final_result lines 452-466 for the decoded report
FinishSynthesis(report) ==
    LET final_confidence == Get(wm_state, "confidence", DefaultConfidence)
        final == IF "error" \in DOMAIN report THEN TemplateReport(final_confidence)
                 ELSE report
    IN  /\ final_result' = WithRunFields(final, cycle_history, current_cycle)
        /\ attempt' = 0
        /\ pc' = "store_episode"
        /\ UNCHANGED call_status

\* _synthesize_final_result up to the answer to its request (line 445)
Synthesize(reply) ==
    LET parsed == ParseData(reply)
    IN  /\ pc = "synthesis"
        /\ IF reply = RAISES \/ ~parsed.isdict
           THEN Escapes
           ELSE IF HasError(parsed) /\ MaxRetries > 0
                THEN /\ pc' = "synthesis_retry"
                     /\ attempt' = 0
                     /\ UNCHANGED << call_status, final_result >>
                ELSE FinishSynthesis(parsed.value)
        /\ retry_llm' = IF pc' = "synthesis_retry" THEN RetryLLM(1, attempt') ELSE NONE
        /\ UNCHANGED << outside, durable, max_cycles, original_task, task_keywords, current_cycle,
                        current_state, cycle_history, wm_state, wm_data, episodic,
                        semantic, procedural, next_uid, plan_phases, exec_phases,
                        fault, episodes_at_call, tool_raised >>

\* one turn of the loop of _parse_data_with_retry called by _synthesize_final_result
SynthesisRetry(reply) ==
    LET parsed == ParseData(reply)
    IN  /\ pc = "synthesis_retry"
        /\ IF reply = RAISES \/ ~parsed.isdict
           THEN Escapes
           ELSE IF HasError(parsed) /\ attempt + 1 < MaxRetries
                THEN /\ attempt' = attempt + 1
                     /\ UNCHANGED << pc, call_status, final_result >>
                ELSE FinishSynthesis(parsed.value)
        /\ retry_llm' = IF pc' = "synthesis_retry" THEN RetryLLM(1, attempt') ELSE NONE
        /\ UNCHANGED << outside, durable, max_cycles, original_task, task_keywords, current_cycle,
                        current_state, cycle_history, wm_state, wm_data, episodic,
                        semantic, procedural, next_uid, plan_phases, exec_phases,
                        fault, episodes_at_call, tool_raised >>

\* lines 189-193: _store_episode, then the return
StoreEpisode ==
    /\ pc = "store_episode"
    /\ \E episode \in {RunEpisode(original_task, cycle_history, final_result,
                                  current_cycle)} :
       \E stored \in {EpisodicStore(episodic, episode, next_uid)} :
        /\ episodic' = stored.data
        /\ episodic_file' = IF stored.raised THEN episodic_file
                            ELSE Save(stored.data, episodic_file)
        /\ next_uid' = next_uid + 1
        /\ call_status' = IF stored.raised THEN "raised" ELSE "returned"
        /\ pc' = "idle"
        /\ UNCHANGED << outside, retry_llm, semantic_file, procedural_file, max_cycles, original_task, task_keywords, current_cycle,
                        current_state, cycle_history, wm_state, wm_data, semantic,
                        procedural, final_result, attempt, plan_phases, exec_phases,
                        fault, episodes_at_call, tool_raised >>

-----------------------------------------------------------------------------
(* The controller *)

Next ==
    \/ \E situation_data \in Situations : Reason(situation_data)
    \/ \E reply \in PreprocessReplies : Preprocess(reply)
    \/ LoopInitial
    \/ \E reply \in PlanningReplies : PlanningCycle(reply)
    \/ \E reply \in PlanningReplies : PlanningRetry(reply)
    \/ \E outcome \in ToolOutcomes : ExecutionCycle(outcome)
    \/ LoopBreak
    \/ LoopExit
    \/ \E reply \in SynthesisReplies : Synthesize(reply)
    \/ \E reply \in SynthesisReplies : SynthesisRetry(reply)
    \/ StoreEpisode

Spec == Init /\ [][Next]_vars

-----------------------------------------------------------------------------
(* The interface of a memory module, called from outside reason() *)

controller ==
    << max_cycles, pc, call_status, original_task, task_keywords, current_cycle,
       current_state, cycle_history, wm_state, wm_data, final_result, attempt,
       plan_phases, exec_phases, fault, episodes_at_call, tool_raised, other_call,
       tools, actions, exec_call, retry_llm >>

DataOf(m) ==
    CASE m = "episodic" -> episodic
      [] m = "semantic" -> semantic
      [] m = "procedural" -> procedural

FileOf(m) ==
    CASE m = "episodic" -> episodic_file
      [] m = "semantic" -> semantic_file
      [] m = "procedural" -> procedural_file

\* the store method of module m
StoreIn(m, data, entry, uid) ==
    CASE m = "episodic" -> EpisodicStore(data, entry, uid)
      [] m = "semantic" -> SemanticStore(data, entry, uid)
      [] m = "procedural" -> ProceduralStore(data, entry, uid)

\* self.data and the file of module m become data and file
Written(m, data, file) ==
    /\ episodic' = IF m = "episodic" THEN data ELSE episodic
    /\ semantic' = IF m = "semantic" THEN data ELSE semantic
    /\ procedural' = IF m = "procedural" THEN data ELSE procedural
    /\ episodic_file' = IF m = "episodic" THEN file ELSE episodic_file
    /\ semantic_file' = IF m = "semantic" THEN file ELSE semantic_file
    /\ procedural_file' = IF m = "procedural" THEN file ELSE procedural_file

Called(op, arg, id, raised, returned, before) ==
    mem_call' = [n |-> mem_call.n + 1, memory |-> mem_call.memory, op |-> op,
                 arg |-> arg, id |-> id, raised |-> raised, returned |-> returned,
                 before |-> before]

\* a module is under call and another call may be made
Callable == mem_call.memory # NONE /\ mem_call.n < MaxCalls

\* an identifier another entry of the module may carry already
ForgedId(m) ==
    GenerateId(m, CASE m = "episodic" -> 0 [] m = "semantic" -> 2
                    [] m = "procedural" -> 7)

ForgedFact == [concept |-> "note", content |-> NoteText, id |-> ForgedId("semantic")]

TaggedFact == [concept |-> "note", content |-> NoteText, tags |-> << "note" >>]

InvalidFact == [concept |-> "note"]

ForgedEpisode == [task |-> NoteText, id |-> ForgedId("episodic")]

\* an episode whose actions name a tool
MappedEpisode ==
    [task |-> NoteText, actions |-> << [tool |-> "region_mapper"] >>,
     confidence |-> 90]

\* an episode of another task
SurveyEpisode == [task |-> TaskText, confidence |-> 50]

OverratedProcedure ==
    [procedure_type |-> "strategy", name |-> "note", success_rate |-> 2 * RateOne]

InvalidProcedure == [name |-> "note"]

\* the records handed to store
StoreEntries(m) ==
    CASE m = "episodic" -> {ValidEpisode, InvalidEpisode, ForgedEpisode,
                            MappedEpisode, SurveyEpisode}
      [] m = "semantic" -> {ValidFact, TaggedFact, ForgedFact, InvalidFact}
      [] m = "procedural" ->
            {ValidProcedure, OverratedProcedure, InvalidProcedure}

Records == UNION {StoreEntries(m) : m \in Modules}

\* the patches handed to update
Patches(m) ==
    CASE m = "episodic" -> {[outcome |-> "reviewed"], [id |-> ForgedId(m)]}
      [] m = "semantic" -> {[tags |-> << "reviewed" >>], [id |-> ForgedId(m)]}
      [] m = "procedural" -> {[success_rate |-> 3 * RateOne], [id |-> ForgedId(m)]}

AllPatches == UNION {Patches(m) : m \in Modules}

\* the identifiers handed to a call: of the newest entry, and one that
\* _generate_id never hands out
UnknownId(m) == GenerateId(m, 0)

TargetIds(m) ==
    {Get(DataOf(m)[i], "id", NONE) : i \in {Len(DataOf(m))} \cap 1..Len(DataOf(m))}
    \cup {UnknownId(m)}

Ids == {GenerateId(m, uid) : m \in Modules, uid \in 0..(9 + 5 * MaxCalls)}

\* the limits handed to retrieve
Limits == 0..MaxLimit

\* store(entry)
MemoryStore(entry) ==
    /\ Callable
    /\ entry \in StoreEntries(mem_call.memory)
    /\ \E m \in {mem_call.memory} :
       \E stored \in {StoreIn(m, DataOf(m), entry, next_uid)} :
        /\ Written(m, stored.data,
                   IF stored.raised THEN FileOf(m) ELSE Save(stored.data, FileOf(m)))
        /\ Called("store", entry, NONE, stored.raised, stored.id, NONE)
    /\ next_uid' = next_uid + 1
    /\ UNCHANGED << controller, disk >>

\* update(entry_id, updates)
MemoryUpdate(entry_id, updates) ==
    /\ Callable
    /\ entry_id \in TargetIds(mem_call.memory)
    /\ updates \in Patches(mem_call.memory)
    /\ \E m \in {mem_call.memory} :
       \E updated \in {Update(DataOf(m), entry_id, updates)} :
        /\ Written(m, updated.data,
                   IF updated.returned THEN Save(updated.data, FileOf(m))
                   ELSE FileOf(m))
        /\ Called("update", updates, entry_id, FALSE, updated.returned,
                  GetById(DataOf(m), entry_id))
    /\ UNCHANGED << controller, disk, next_uid >>

\* clear()
MemoryClear ==
    /\ Callable
    /\ \E m \in {mem_call.memory} :
        /\ Written(m, Clear(DataOf(m)), Save(Clear(DataOf(m)), FileOf(m)))
        /\ Called("clear", NONE, NONE, FALSE, NONE, NONE)
    /\ UNCHANGED << controller, disk, next_uid >>

\* increment_usage(entry_id) of Procedural Memory
MemoryIncrementUsage(entry_id) ==
    /\ Callable
    /\ mem_call.memory = "procedural"
    /\ entry_id \in TargetIds("procedural")
    /\ \E counted \in {IncrementUsage(procedural, entry_id)} :
        /\ Written("procedural", counted.data,
                   IF counted.returned THEN Save(counted.data, procedural_file)
                   ELSE procedural_file)
        /\ Called("increment_usage", NONE, entry_id, FALSE, counted.returned,
                  GetById(procedural, entry_id))
    /\ UNCHANGED << controller, disk, next_uid >>

\* update_success_rate(entry_id, success) of Procedural Memory
MemoryUpdateSuccessRate(entry_id, success) ==
    /\ Callable
    /\ mem_call.memory = "procedural"
    /\ entry_id \in TargetIds("procedural")
    /\ \E rated \in {UpdateSuccessRate(procedural, entry_id, success)} :
        /\ Written("procedural", rated.data,
                   IF rated.returned THEN Save(rated.data, procedural_file)
                   ELSE procedural_file)
        /\ Called("update_success_rate", success, entry_id, FALSE, rated.returned,
                  GetById(procedural, entry_id))
    /\ UNCHANGED << controller, disk, next_uid >>

\* the process starts again: the module is constructed on file_path, where the
\* file is as `content` says; a constructor that raises leaves no module, and
\* the calls that follow are made on the one there was
MemoryConstruct(file_path, content) ==
    /\ Callable
    /\ \E m \in {mem_call.memory} :
       \E built \in {Construct(m, file_path, content, FileOf(m), next_uid)} :
        /\ Written(m, IF built.raised THEN DataOf(m) ELSE built.data, built.file)
        /\ Called("construct", [file_path |-> file_path, content |-> content], NONE,
                  built.raised, NONE, NONE)
        /\ next_uid' = next_uid + built.used
    /\ UNCHANGED << controller, disk >>

\* what ToonFormatter finds at import: toon_format or pytoon (an encoder and a
\* decoder), toon_python (an encoder only), or no TOON library (JSON fallback)
Formatters == {"toon_format", "toon_python", "json"}

\* cls._toon_available and cls._toon_encode
HasEncode(formatter) == formatter \in {"toon_format", "toon_python"}

\* cls._toon_available and cls._toon_decode
HasDecode(formatter) == formatter = "toon_format"

\* ToonFormatter.dumps: the text written, TOON from the encoder or else JSON
Dumps(formatter, data) ==
    [format |-> IF HasEncode(formatter) THEN "toon" ELSE "json", entries |-> data]

\* ToonFormatter.loads raises: without a decoder the text goes to json.loads,
\* which rejects TOON
LoadsRaises(formatter, text) == ~HasDecode(formatter) /\ text.format = "toon"

\* the file save() wrote under the formatter, as load() under it finds it
ContentUnder(formatter, file) ==
    IF LoadsRaises(formatter, Dumps(formatter, file)) THEN "undecodable"
    ELSE "entries"

\* the process, running with the formatter, ends and starts again: the module
\* is constructed on the file the instance before it left
MemoryRestart(formatter) ==
    /\ Callable
    /\ \E m \in {mem_call.memory} :
       \E built \in {Construct(m, "data/memory/memory.toon",
                               ContentUnder(formatter, FileOf(m)), FileOf(m),
                               next_uid)} :
        /\ Written(m, built.data, built.file)
        /\ Called("restart", [formatter |-> formatter], NONE, built.raised, NONE,
                  NONE)
        /\ next_uid' = next_uid + built.used
    /\ UNCHANGED << controller, disk >>

\* retrieve({}, limit) of Episodic Memory
MemoryRetrieve(limit) ==
    /\ Callable
    /\ mem_call.memory = "episodic"
    /\ Called("retrieve", limit, NONE, FALSE, EpisodicRetrieve(episodic, EmptyMap, limit),
              NONE)
    /\ UNCHANGED << controller, disk, next_uid, durable, episodic, semantic,
                    procedural >>

\* the queries that name keywords, tools or a confidence threshold
EpisodeQueries ==
    { [task_keywords |-> << "note" >>],
      [tools_used |-> << "region_mapper" >>],
      [task_keywords |-> << "note" >>, tools_used |-> << "region_mapper" >>],
      [task_keywords |-> << "note" >>, min_confidence |-> 70] }

\* retrieve(query, limit) of Episodic Memory with such a query
MemoryRetrieveQuery(query, limit) ==
    /\ Callable
    /\ mem_call.memory = "episodic"
    /\ Called("retrieve_query", [query |-> query, limit |-> limit], NONE, FALSE,
              EpisodicRetrieve(episodic, query, limit), NONE)
    /\ UNCHANGED << controller, disk, next_uid, durable, episodic, semantic,
                    procedural >>

\* the queries handed to retrieve of Semantic Memory
FactQueries ==
    { EmptyMap,
      [concept |-> "region"],
      [fact_type |-> "location"],
      [fact_type |-> "bounding_box"],
      [tags |-> << "note" >>],
      [keywords |-> << "munich" >>] }

\* retrieve(query, limit) of Semantic Memory
MemoryRetrieveFacts(query, limit) ==
    /\ Callable
    /\ mem_call.memory = "semantic"
    /\ Called("retrieve_facts", [query |-> query, limit |-> limit], NONE, FALSE,
              SemanticRetrieve(semantic, query, limit), NONE)
    /\ UNCHANGED << controller, disk, next_uid, durable, episodic, semantic,
                    procedural >>

\* the file system stops taking writes
DiskChanges(d) ==
    /\ Callable
    /\ disk = "writes"
    /\ d # disk
    /\ disk' = d
    /\ UNCHANGED << controller, mem_call, next_uid, durable, episodic, semantic,
                    procedural >>

NextMemory ==
    \/ \E entry \in Records : MemoryStore(entry)
    \/ \E entry_id \in Ids, updates \in AllPatches : MemoryUpdate(entry_id, updates)
    \/ MemoryClear
    \/ \E entry_id \in Ids : MemoryIncrementUsage(entry_id)
    \/ \E entry_id \in Ids, success \in BOOLEAN :
          MemoryUpdateSuccessRate(entry_id, success)
    \/ \E file_path \in FilePaths, content \in FileContents :
          MemoryConstruct(file_path, content)
    \/ \E formatter \in Formatters : MemoryRestart(formatter)
    \/ \E limit \in Limits : MemoryRetrieve(limit)
    \/ \E query \in EpisodeQueries, limit \in Limits : MemoryRetrieveQuery(query, limit)
    \/ \E query \in FactQueries, limit \in Limits : MemoryRetrieveFacts(query, limit)
    \/ \E d \in DiskStates : DiskChanges(d)

\* one module is called; the controller takes no step and its budget is not read
InitMemory ==
    /\ max_cycles = MaxBudget
    /\ mem_call \in {Idle(m) : m \in Modules}
    /\ Registered(DefaultCatalog)
    /\ Constructed

SpecMemory == InitMemory /\ [][NextMemory]_vars

-----------------------------------------------------------------------------
(* The action registry, called from outside reason() *)

\* the names a catalog may give its tools: those of Tools, and the name of an
\* internal action
ToolNames == Tools \cup {"store_fact"}

\* the catalogs: every tool has an 'execute' entry, or lacks it
Catalogs ==
    UNION {[names -> {[execute |-> TRUE], [execute |-> FALSE]}] :
              names \in SUBSET ToolNames}

ActionNames == InternalActionNames \cup ToolNames \cup {"launch_probe"}

ExecParameters ==
    { EmptyMap, [fact |-> ValidFact], [fact |-> InvalidFact],
      [episode |-> ValidEpisode], [procedure |-> ValidProcedure],
      [query |-> EmptyMap, limit |-> 1] }

\* the memory module an internal action's lambda calls
ModuleOf(action_name) ==
    CASE action_name \in {"retrieve_episodic", "store_episode"} -> "episodic"
      [] action_name \in {"retrieve_semantic", "store_fact"} -> "semantic"
      [] action_name \in {"retrieve_procedural", "store_procedure"} -> "procedural"

\* the lambdas of the retrieval actions
RetrievalTarget(action_name, parameters) ==
    LET query == Get(parameters, "query", EmptyMap)
        limit == Get(parameters, "limit", 5)
    IN  CASE action_name = "retrieve_episodic" -> EpisodicRetrieve(episodic, query, limit)
          [] action_name = "retrieve_semantic" -> SemanticRetrieve(semantic, query, limit)
          [] action_name = "retrieve_procedural" ->
                ProceduralRetrieve(procedural, query, limit)

\* a tool's execute is a coroutine function: the call gives a coroutine object
Coroutine(tool_name, parameters) == [coroutine |-> tool_name, params |-> parameters]

\* action.execute(parameters): what the target gives back, whether it raised,
\* and the collection and the file of the module it writes
Invoke(action, parameters) ==
    LET same == [raised |-> FALSE, returned |-> NONE, memory |-> "episodic",
                 data |-> episodic, file |-> episodic_file, used |-> 0]
    IN  IF IsExternal(action)
        THEN [same EXCEPT !.returned = Coroutine(action.name, parameters)]
        ELSE IF action.action_type = INTERNAL_RETRIEVAL
        THEN [same EXCEPT !.returned = RetrievalTarget(action.name, parameters)]
        ELSE LET m == ModuleOf(action.name)
                 stored == StoreIn(m, DataOf(m),
                                   Get(parameters, RecordKey(action.name), EmptyMap),
                                   next_uid)
             IN  [raised |-> stored.raised, returned |-> stored.id, memory |-> m,
                  data |-> stored.data,
                  file |-> IF stored.raised THEN FileOf(m)
                           ELSE Save(stored.data, FileOf(m)),
                  used |-> 1]

\* execute_action(action_name, parameters)
ExecuteActionCall(action_name, parameters) ==
    /\ exec_call.n < MaxExecutions
    /\ \E error \in {ExecuteAction(actions, action_name)} :
        IF error # "none"
        THEN /\ exec_call' = [n |-> exec_call.n + 1, name |-> action_name,
                              parameters |-> parameters, error |-> error,
                              invoked |-> 0, returned |-> NONE]
             /\ UNCHANGED << episodic, semantic, procedural, durable, next_uid >>
        ELSE \E done \in {Invoke(actions[action_name], parameters)} :
             /\ exec_call' = [n |-> exec_call.n + 1, name |-> action_name,
                              parameters |-> parameters,
                              error |-> IF done.raised THEN "target_raised" ELSE "none",
                              invoked |-> 1, returned |-> done.returned]
             /\ Written(done.memory, done.data, done.file)
             /\ next_uid' = next_uid + done.used
    /\ UNCHANGED << max_cycles, pc, call_status, original_task, task_keywords,
                    current_cycle, current_state, cycle_history, wm_state, wm_data,
                    final_result, attempt, plan_phases, exec_phases, fault,
                    episodes_at_call, tool_raised, other_call, disk, mem_call,
                    tools, actions, retry_llm >>

NextRegistry ==
    \E action_name \in ActionNames, parameters \in ExecParameters :
        ExecuteActionCall(action_name, parameters)

\* an action space is built on one of the catalogs
InitRegistry ==
    /\ max_cycles = MaxBudget
    /\ mem_call = NoCall
    /\ \E catalog \in Catalogs : Registered(catalog)
    /\ Constructed

SpecRegistry == InitRegistry /\ [][NextRegistry]_vars

-----------------------------------------------------------------------------
(* Two requests of the host (app.py) *)

\* app.py lines 252-266 start one thread per request and every thread calls
\* reason() on the one controller of the process; reason() takes no lock.  This
\* is a second call entering while the first is in flight, followed through
\* lines 132-137 of reason(); the fields it assigns are the controller's, the
\* position and the locals of the first call are not touched
ReasonConcurrently(situation_data) ==
    LET task == Get(situation_data, "task_description", "")
    IN  /\ call_status = "running"
        /\ other_call = "none"
        /\ other_call' = "running"
        /\ original_task' = task
        /\ cycle_history' = << >>
        /\ current_cycle' = 0
        /\ wm_data' = ArchiveState(wm_data, wm_state, next_uid)
        /\ next_uid' = IF wm_state = EmptyMap THEN next_uid ELSE next_uid + 1
        /\ wm_state' = SetCurrentTask(task)
        /\ UNCHANGED << durable, disk, mem_call, tools, actions, exec_call,
                        retry_llm, max_cycles, pc, call_status,
                        task_keywords, current_state, episodic, semantic, procedural,
                        final_result, attempt, plan_phases, exec_phases, fault,
                        episodes_at_call, tool_raised >>

NextConcurrent ==
    \/ Next
    \/ \E situation_data \in Situations : ReasonConcurrently(situation_data)

\* the two requests are followed on a controller built with this budget
InitConcurrent == Init /\ max_cycles = ConcurrentBudget

SpecConcurrent == InitConcurrent /\ [][NextConcurrent]_vars

\* every request to a model and every tool invocation returns or raises
SpecFair == Spec /\ WF_vars(Next)

\* WorkingMemory.reset followed by set_current_task: the state a run starts from
ResetKeepsState(state, task) ==
    Put(Put(state, "task", task), "task_start_time", "now")

Reset(state, task) == SetCurrentTask(task)

\* reason() is called again after the previous call has returned or raised:
\* lines 132-140 and 146, as in the first call
ReasonAgain(situation_data) ==
    LET task == Get(situation_data, "task_description", "")
    IN  /\ pc = "idle"
        /\ call_status \in {"returned", "raised"}
        /\ Len(wm_data) < MaxRuns - 1
        /\ call_status' = "running"
        /\ original_task' = task
        /\ cycle_history' = << >>
        /\ current_cycle' = 0
        /\ wm_data' = ArchiveState(wm_data, wm_state, next_uid)
        /\ next_uid' = IF wm_state = EmptyMap THEN next_uid ELSE next_uid + 1
        /\ wm_state' = Reset(wm_state, task)
        /\ episodes_at_call' = Len(episodic)
        /\ plan_phases' = 0
        /\ exec_phases' = 0
        /\ fault' = "none"
        /\ tool_raised' = NONE
        /\ IF task = ""
           THEN /\ task_keywords' = << >>
                /\ current_state' = INITIAL
                /\ pc' = "loop"
           ELSE /\ pc' = "preprocess"
                /\ UNCHANGED << task_keywords, current_state >>
        /\ UNCHANGED << outside, retry_llm, durable, max_cycles, episodic, semantic,
                        procedural, final_result, attempt >>

NextSequence ==
    \/ Next
    \/ \E situation_data \in Situations : ReasonAgain(situation_data)

InitSequence == Init /\ max_cycles = SequenceBudget

SpecSequence == InitSequence /\ [][NextSequence]_vars

-----------------------------------------------------------------------------
(* Properties of a run *)

PlanOf(step) == step.results["plan"]

\* the decision of a PLANNING step asks for an action and does not end the task
Continues(step) ==
    /\ Truthy(Get(PlanOf(step), "next_action", NONE))
    /\ ~Get(PlanOf(step), "task_complete", FALSE)

EveryDecisionContinues ==
    \A i \in 1..Len(cycle_history) :
        cycle_history[i].state = PLANNING => Continues(cycle_history[i])

\* C1: a reason() call performs at most max_cycles Execution phases, whatever
\* the models and the tools answer
ExecutionPhasesWithinBudget == exec_phases <= max_cycles

\* a returned run of budget 3 in which every decision asked for an action and
\* two Execution phases were performed
ExecutionPhasesWitness ==
    /\ call_status = "returned"
    /\ max_cycles = 3
    /\ exec_phases = 2
    /\ plan_phases = 2
    /\ EveryDecisionContinues

InLoop == pc \in {"loop", "planning_retry"}

\* C2: when every request and every tool invocation returns or raises, the loop
\* of reason() is left, and current_cycle never exceeds max_cycles
LoopTerminatesWithinBudget ==
    /\ [](current_cycle <= max_cycles)
    /\ (InLoop ~> ~InLoop)

\* the loop was left with the budget used up by decisions that all continue
LoopTerminatesWitness ==
    /\ pc = "synthesis"
    /\ fault = "none"
    /\ max_cycles >= 2
    /\ current_cycle = max_cycles
    /\ exec_phases = max_cycles - 1
    /\ EveryDecisionContinues

\* C3: after the reasoning model raised in a Planning phase, reason() returns a
\* result mapping: no exception reaches the caller
PlanningFaultStillReturns == fault = "planning" => call_status # "raised"

NineFields ==
    {"situation_summary", "analysis", "recommendations", "confidence", "task_status",
     "reasoning_trace", "tool_results", "total_cycles", "actions_executed"}

\* C4: the mapping reason() returns has all nine fields of the result shape
ReturnedShape == call_status = "returned" => NineFields \subseteq DOMAIN final_result

LastStep == cycle_history[Len(cycle_history)]

\* C5: after a tool invocation raised, the log ends with an EXECUTION step of
\* that tool and the controller goes on to plan
ToolFailureRecorded ==
    tool_raised # NONE =>
        /\ Len(cycle_history) > 0
        /\ LastStep.state = EXECUTION
        /\ LastStep.action_selected = tool_raised
        /\ current_state # COMPLETED

\* the first decision of the run has next_action null or task_complete true
FirstDecisionStops ==
    /\ Len(cycle_history) >= 1
    /\ cycle_history[1].state = PLANNING
    /\ \/ Get(PlanOf(cycle_history[1]), "next_action", NONE) = NONE
       \/ Get(PlanOf(cycle_history[1]), "task_complete", FALSE)

\* C6: when the first planning decision has next_action null or task_complete
\* true, the controller is COMPLETED after one Planning and no Execution phase,
\* and the result has total_cycles = 1
EarlyCompletion ==
    (max_cycles >= 1 /\ FirstDecisionStops) =>
        /\ current_state = COMPLETED
        /\ plan_phases = 1
        /\ exec_phases = 0
        /\ Len(cycle_history) = 1
        /\ call_status = "returned" => final_result["total_cycles"] = 1

\* a returned run whose first decision named a tool and set task_complete
EarlyCompletionWitness ==
    /\ call_status = "returned"
    /\ FirstDecisionStops
    /\ cycle_history[1].action_selected = "region_mapper"
    /\ final_result["total_cycles"] = 1

\* the EXECUTION steps of the log that stored an episode
StoreEpisodeSteps(history) ==
    Cardinality({i \in 1..Len(history) :
                    /\ history[i].state = EXECUTION
                    /\ history[i].action_selected = "store_episode"})

AllowedEdges ==
    { << INITIAL, PLANNING >>, << PLANNING, EXECUTION >>, << PLANNING, COMPLETED >>,
      << EXECUTION, PLANNING >>, << EXECUTION, COMPLETED >> }

\* C8: the controller state changes along the allowed edges or to ERROR only,
\* and no phase starts once it is COMPLETED or ERROR
ControllerEdges ==
    [][ /\ (current_state # NONE /\ current_state' # current_state) =>
              \/ << current_state, current_state' >> \in AllowedEdges
              \/ current_state' = ERROR
        /\ current_state \in {COMPLETED, ERROR} =>
              /\ plan_phases' = plan_phases
              /\ exec_phases' = exec_phases ]_vars

\* COMPLETED was reached from a second Planning phase, after an Execution phase
ControllerEdgesWitness ==
    /\ current_state = COMPLETED
    /\ pc = "synthesis"
    /\ plan_phases = 2
    /\ exec_phases = 1

\* C9: the loop of reason() is left without a fault in COMPLETED only, so
\* synthesis after an Execution phase starts from COMPLETED
SynthesisFromCompleted ==
    (pc = "synthesis" /\ fault = "none" /\ exec_phases > 0) => current_state = COMPLETED

IsPrefix(s, t) == Len(s) <= Len(t) /\ SubSeq(t, 1, Len(s)) = s

CycleNumbersSorted ==
    \A i \in 1..(Len(cycle_history) - 1) :
        cycle_history[i].cycle_number <= cycle_history[i + 1].cycle_number

\* C10: during a run the log only grows at its end, one step at a time, no
\* step in it changes, and its cycle numbers never decrease
LogAppendOnly ==
    /\ []CycleNumbersSorted
    /\ [][call_status = "running" =>
              /\ IsPrefix(cycle_history, cycle_history')
              /\ Len(cycle_history') <= Len(cycle_history) + 1]_vars

\* C11: between the entry and the return of a reason() call nothing resets the
\* log, the cycle counter or the task of Working Memory that the call works on:
\* a second call does not enter while the first is in flight
RunOwnsItsState ==
    [][(call_status = "running" /\ call_status' = "running") =>
          /\ Len(cycle_history') >= Len(cycle_history)
          /\ current_cycle' >= current_cycle
          /\ original_task' = original_task
          /\ other_call' = "none"]_vars

-----------------------------------------------------------------------------
(* The memory modules *)

\* the step is a call of `op` on the module under call
CallOf(op) == mem_call'.n = mem_call.n + 1 /\ mem_call'.op = op

\* the required fields of a record of module m
RequiredFields(m) ==
    CASE m = "episodic" -> {"task"}
      [] m = "semantic" -> {"concept", "content"}
      [] m = "procedural" -> {"procedure_type", "name"}

\* C12: store raises exactly for a record that lacks a required field of its
\* module, and a store that raised leaves the collection and the file of every
\* module as they were
RejectedStoreChangesNothing ==
    /\ [](mem_call.op = "store" =>
            (mem_call.raised <=>
                ~(RequiredFields(mem_call.memory) \subseteq DOMAIN mem_call.arg)))
    /\ [][(CallOf("store") /\ mem_call'.raised) =>
              UNCHANGED << episodic, semantic, procedural, durable >>]_vars

\* a fact without content was rejected by a Semantic Memory that holds facts,
\* while the file system refuses writes
RejectedStoreWitness ==
    /\ mem_call.op = "store"
    /\ mem_call.memory = "semantic"
    /\ mem_call.raised
    /\ mem_call.arg = InvalidFact
    /\ Len(semantic) > Len(DefaultFacts)
    /\ disk # "writes"

\* the identifiers of a collection whose entries all carry one
IdsOf(data) == [i \in 1..Len(data) |-> data[i]["id"]]

\* C13: in each memory module every entry carries an identifier, and no two
\* entries carry the same one
IdentifiersDistinct ==
    \A m \in Modules :
        /\ \A i \in 1..Len(DataOf(m)) : "id" \in DOMAIN DataOf(m)[i]
        /\ \A i, j \in 1..Len(DataOf(m)) :
              i # j => IdsOf(DataOf(m))[i] # IdsOf(DataOf(m))[j]

\* C14: update changes no identifier of the collection, and changes no entry
\* but the one it addresses
UpdateKeepsIdentifier ==
    [][CallOf("update") =>
          \A m \in Modules :
              /\ Len(DataOf(m)') = Len(DataOf(m))
              /\ IdsOf(DataOf(m)') = IdsOf(DataOf(m))
              /\ \A i \in 1..Len(DataOf(m)) :
                    i # IndexOfId(DataOf(m), mem_call'.id) =>
                        DataOf(m)'[i] = DataOf(m)[i]]_vars

\* C15: every episode of Episodic Memory has a task, and the task is not empty
EpisodesHaveTask ==
    \A i \in 1..Len(episodic) :
        "task" \in DOMAIN episodic[i] /\ episodic[i]["task"] # ""

\* C16: the fact get_by_id returns for the identifier that store returned has
\* a tags field, which is the empty list when the stored record had none, and
\* every fact of Semantic Memory keeps a tags field
TagsRoundTrip ==
    /\ \A i \in 1..Len(semantic) : "tags" \in DOMAIN semantic[i]
    /\ (mem_call.memory = "semantic" /\ mem_call.op = "store" /\ ~mem_call.raised) =>
          /\ IndexOfId(semantic, mem_call.returned) # 0
          /\ \E fact \in {semantic[IndexOfId(semantic, mem_call.returned)]} :
                /\ "tags" \in DOMAIN fact
                /\ ("tags" \notin DOMAIN mem_call.arg => fact["tags"] = << >>)

\* C17: the success_rate of every procedure lies between 0 and 1
SuccessRateInRange ==
    \A i \in 1..Len(procedural) :
        "success_rate" \in DOMAIN procedural[i]
        /\ procedural[i]["success_rate"] \in 0..RateOne

\* the last call was update_success_rate(id, success=True) on a procedure
RatedUp ==
    /\ mem_call.op = "update_success_rate"
    /\ mem_call.arg = TRUE
    /\ mem_call.returned = TRUE

\* the rate of the addressed procedure before and after the last call
RateBefore == Get(mem_call.before, "success_rate", HalfRate)

RateAfter == procedural[IndexOfId(procedural, mem_call.id)]["success_rate"]

\* C18 as stated: update_success_rate(id, True) strictly increases the rate of
\* every stored procedure and leaves it strictly below 1
StrictlyTowardOne ==
    RatedUp => (RateBefore < RateAfter /\ RateAfter < RateOne)

\* C18: update_success_rate(id, True) shrinks the distance of the rate to 1 by
\* the factor 0.8 exactly: a rate below 1 strictly increases and stays below
\* 1, a rate of 1 stays 1, a rate above 1 decreases and stays above 1
TowardOne ==
    RatedUp =>
        /\ 5 * (RateOne - RateAfter) = 4 * (RateOne - RateBefore)
        /\ RateBefore < RateOne => (RateBefore < RateAfter /\ RateAfter < RateOne)
        /\ RateBefore = RateOne => RateAfter = RateOne
        /\ RateBefore > RateOne => (RateAfter < RateBefore /\ RateAfter > RateOne)

\* a procedure stored at 0.5 was rated up twice: 0.5, 0.6, 0.68
TowardOneWitness ==
    /\ RatedUp
    /\ RateBefore = (6 * RateOne) \div 10
    /\ RateAfter = (68 * RateOne) \div 100

Min(a, b) == IF a < b THEN a ELSE b

\* C19: retrieve with an empty query and limit k on n episodes returns the
\* Min(k, n) episodes stored last, the last stored first
RetrieveMostRecentFirst ==
    mem_call.op = "retrieve" =>
        mem_call.returned =
            [k \in 1..Min(mem_call.arg, Len(episodic)) |->
                episodic[Len(episodic) - k + 1]]

\* two of three episodes were retrieved
RetrieveWitness ==
    /\ mem_call.op = "retrieve"
    /\ mem_call.arg = 2
    /\ Len(episodic) = 3
    /\ Len(mem_call.returned) = 2
    /\ mem_call.returned[1] = episodic[3]

MutatingCalls ==
    {"store", "update", "clear", "increment_usage", "update_success_rate"}

\* C20: when a mutating call on a module has returned, the file of the module
\* holds the entries of its collection
DurableMatchesMemory ==
    (mem_call.op \in MutatingCalls /\ ~mem_call.raised) =>
        FileOf(mem_call.memory) = DataOf(mem_call.memory)

\* C21: a persistent module constructed on a backing file that is absent or
\* cannot be decoded is constructed without an exception, and holds no entry
\* but the defaults it seeds itself with
ConstructionNeverFails ==
    (mem_call.op = "construct" /\ mem_call.arg.content \in {"absent", "undecodable"}) =>
        /\ ~mem_call.raised
        /\ Len(DataOf(mem_call.memory)) = Len(Defaults(mem_call.memory))

\* the internal and the external actions are disjoint and together are all
\* the registered actions
RegistryPartition ==
    /\ GetInternalActions(actions) \cap GetExternalActions(actions) = {}
    /\ GetInternalActions(actions) \cup GetExternalActions(actions)
          = {actions[name] : name \in DOMAIN actions}

\* C22: the registry built on any catalog holds 7 internal actions (1
\* reasoning, 3 retrieval, 3 learning) and one external action per tool;
\* the internal and the external actions are disjoint and together are all
RegistryShape ==
    /\ Cardinality(GetInternalActions(actions)) = 7
    /\ Cardinality(ActionsOfType(actions, INTERNAL_REASONING)) = 1
    /\ Cardinality(ActionsOfType(actions, INTERNAL_RETRIEVAL)) = 3
    /\ Cardinality(ActionsOfType(actions, INTERNAL_LEARNING)) = 3
    /\ Cardinality(GetExternalActions(actions)) = Cardinality(DOMAIN tools)
    /\ RegistryPartition

\* C23: execute_action raises the unknown-action error for a name that is not
\* registered and the not-executable error for an action without a target,
\* invoking nothing and leaving the memories and their files as they are;
\* for any other name it invokes the target once and returns what the target
\* returned
ExecuteActionContract ==
    [][exec_call'.n = exec_call.n + 1 =>
         \E name \in {exec_call'.name} :
            /\ name \notin DOMAIN actions => exec_call'.error = "not_found"
            /\ (name \in DOMAIN actions /\ ~actions[name].execute)
                  => exec_call'.error = "no_execute"
            /\ exec_call'.error \in {"not_found", "no_execute"} =>
                  /\ name \notin DOMAIN actions \/ ~actions[name].execute
                  /\ exec_call'.invoked = 0
                  /\ UNCHANGED << episodic, semantic, procedural, durable >>
            /\ (name \in DOMAIN actions /\ actions[name].execute) =>
                  /\ exec_call'.invoked = 1
                  /\ exec_call'.error \in {"none", "target_raised"}
                  /\ exec_call'.error = "none" =>
                        exec_call'.returned =
                            Invoke(actions[name], exec_call'.parameters).returned]_vars

\* a tool without an execute entry was asked for after a fact had been stored
ExecuteActionWitness ==
    /\ exec_call.n = 2
    /\ exec_call.error = "no_execute"
    /\ exec_call.name \in DOMAIN tools
    /\ Len(semantic) = Len(DefaultFacts) + 1

\* a retry request of _parse_data_with_retry is in flight
InRetry == pc \in {"planning_retry", "synthesis_retry"}

\* the answer to the retry request in flight could not be parsed: another
\* retry is sent, or the planning step records the parse-error sentinel
UnparseableRetry ==
    /\ pc = "planning_retry"
    /\ \/ pc' = "planning_retry"
       \/ /\ pc' = "loop"
          /\ Len(cycle_history') = Len(cycle_history) + 1
          /\ "error" \in DOMAIN PlanOf(cycle_history'[Len(cycle_history')])

NotImplemented == [status |-> "not_implemented"]

\* the action the Execution phase is about to run
SelectedAction == Get(IntermediateResults(wm_state), "selected_action", NONE)

\* C25: an Execution phase whose tool returns the not-implemented result
\* appends an EXECUTION CycleStep holding the result, writes the result under
\* the tool's key of Working Memory, raises no fault, and hands control to
\* PLANNING in the next cycle
NotImplementedIsNormal ==
    [][(SelectedAction \in Tools /\ ExecutionCycle(Returns(NotImplemented))) =>
          /\ Len(cycle_history') = Len(cycle_history) + 1
          /\ \E step \in {cycle_history'[Len(cycle_history')]} :
                /\ step.state = EXECUTION
                /\ step.action_selected = SelectedAction
                /\ step.action_type = EXTERNAL_GROUNDING
                /\ step.results["action_result"] = NotImplemented
          /\ IntermediateResults(wm_state')[ToolResultKey(SelectedAction)]
                = NotImplemented
          /\ fault' = "none"
          /\ pc' = "loop"
          /\ current_state' = PLANNING
          /\ current_cycle' = current_cycle + 1
          /\ UNCHANGED << episodic, semantic, procedural >>]_vars

\* the cycle after a not-implemented result was planned
NotImplementedWitness ==
    /\ Len(cycle_history) >= 3
    /\ cycle_history[2].state = EXECUTION
    /\ cycle_history[2].results["action_result"] = NotImplemented
    /\ cycle_history[3].state = PLANNING
    /\ cycle_history[3].cycle_number = 2
    /\ fault = "none"

\* C26: the confidence of every PLANNING CycleStep and the confidence held by
\* Working Memory lie in [0,1]
ConfidenceInRange ==
    /\ \A i \in 1..Len(cycle_history) :
          cycle_history[i].state = PLANNING =>
              cycle_history[i].confidence \in 0..100
    /\ "confidence" \in DOMAIN wm_state => wm_state["confidence"] \in 0..100

\* C27: a run of budget max_cycles >= 1 performs at most max_cycles - 1 Planning
\* phases and no phase of the cycle numbered max_cycles; the counter the
\* result reports as total_cycles still reaches max_cycles, and a run of
\* budget 1 sends no planning request and reports total_cycles = 1
LastCycleNeverRuns ==
    /\ max_cycles >= 1 => plan_phases <= max_cycles - 1
    /\ \A i \in 1..Len(cycle_history) : cycle_history[i].cycle_number < max_cycles
    /\ call_status = "returned" =>
          /\ final_result["total_cycles"] = current_cycle
          /\ max_cycles = 1 =>
                /\ plan_phases = 0
                /\ cycle_history = << >>
                /\ final_result["total_cycles"] = 1

\* a returned run of budget 3 that reports three cycles and planned two
LastCycleWitness ==
    /\ call_status = "returned"
    /\ max_cycles = 3
    /\ final_result["total_cycles"] = 3
    /\ plan_phases = 2
    /\ exec_phases = 2
    /\ \A i \in 1..Len(cycle_history) : cycle_history[i].cycle_number <= 2

\* the retry procedure of the Planning phase gives up: its last retry was
\* unparseable too and the decision is the parse-error sentinel
SentinelAfterRetries ==
    /\ pc = "planning_retry"
    /\ pc' = "loop"
    /\ Len(cycle_history') = Len(cycle_history) + 1
    /\ PlanOf(cycle_history'[Len(cycle_history')]) = ParseErrorSentinel

\* C28: when the decision is still the parse-error sentinel after the retries,
\* the Planning phase raises no fault, appends a PLANNING CycleStep with no
\* selected action and the default confidence 0.5, writes no selected_action
\* to Working Memory and the run moves to COMPLETED; no Execution phase
\* follows that step
SentinelEndsRun ==
    /\ [][SentinelAfterRetries =>
            LET step == cycle_history'[Len(cycle_history')]
            IN  /\ cycle_history' = Append(cycle_history, step)
                /\ step.state = PLANNING
                /\ step.cycle_number = current_cycle
                /\ step.action_selected = NONE
                /\ step.action_type = "none"
                /\ step.confidence = DefaultConfidence
                /\ wm_state'["confidence"] = DefaultConfidence
                /\ IntermediateResults(wm_state') = IntermediateResults(wm_state)
                /\ fault' = fault
                /\ fault' = "none"
                /\ current_state' = COMPLETED
                /\ exec_phases' = exec_phases]_vars
    /\ [](\A i \in 1..Len(cycle_history) :
            (cycle_history[i].state = PLANNING
               /\ PlanOf(cycle_history[i]) = ParseErrorSentinel) =>
                 /\ i = Len(cycle_history)
                 /\ current_state = COMPLETED
                 /\ fault = "none")

\* a run whose second cycle planned the sentinel after an executed first cycle
SentinelWitness ==
    /\ call_status = "returned"
    /\ Len(cycle_history) = 3
    /\ cycle_history[2].state = EXECUTION
    /\ cycle_history[3].state = PLANNING
    /\ PlanOf(cycle_history[3]) = ParseErrorSentinel
    /\ cycle_history[3].action_selected = NONE
    /\ SelectedAction # NONE
    /\ current_state = COMPLETED

\* C29: in the Execution phase of a tool action whose tool returned a
\* result, Semantic Memory gains a record if and only if the action is
\* region_mapper and the result carries a bbox, and then exactly one record,
\* tagged region, geography and the lower-cased region name; the Execution
\* of any other tool leaves the three long-term memories unchanged
RegionRecordedIffBbox ==
    [][\A result \in ToolResults :
         (SelectedAction \in Tools /\ ExecutionCycle(Returns(result))) =>
            LET region_name == Get(Get(IntermediateResults(wm_state),
                                       "action_parameters", EmptyMap),
                                   "region_name", "unknown")
                mapped == SelectedAction = "region_mapper" /\ "bbox" \in DOMAIN result
            IN  /\ (semantic' # semantic) <=> mapped
                /\ mapped =>
                     /\ Len(semantic') = Len(semantic) + 1
                     /\ SubSeq(semantic', 1, Len(semantic)) = semantic
                     /\ {"region", "geography", Lower(region_name)}
                           \subseteq LowerAll(semantic'[Len(semantic')]["tags"])
                /\ UNCHANGED << episodic, procedural >>
                /\ SelectedAction # "region_mapper" => UNCHANGED semantic]_vars

\* reversed(self.data): the episodes in the order of the scan
NewestFirst(data) == [i \in 1..Len(data) |-> data[Len(data) - i + 1]]

\* an episode that is not below the query's min_confidence and scores above 0
Qualifies(episode, query) ==
    /\ Get(episode, "confidence", 0) >= Get(query, "min_confidence", 0)
    /\ EpisodeScore(episode, Get(query, "task_keywords", << >>),
                    Get(query, "tools_used", << >>)) > 0

\* the positions in the scan of its first `limit` qualifying episodes
FirstQualifying(scan, query, limit) ==
    LET qualifying == {i \in 1..Len(scan) : Qualifies(scan[i], query)}
    IN  {i \in qualifying : Cardinality({j \in qualifying : j <= i}) <= limit}

FactQueryFields == {"concept", "entity", "tags", "fact_type", "keywords"}

\* C31: for every query that supplies at least one of concept, entity, tags,
\* fact_type and keywords, every fact that Semantic retrieve returns scores
\* above 0
ZeroScoreOnlyForEmptyQuery ==
    (mem_call.op = "retrieve_facts"
       /\ DOMAIN mem_call.arg.query \cap FactQueryFields # {}) =>
        \A k \in 1..Len(mem_call.returned) :
            FactScore(mem_call.returned[k], mem_call.arg.query) > 0

\* the text parses: _parse_data decodes it to a record rather than giving up
\* with its sentinel
Parses(text) == text.form = "object"

\* C32: the retry procedure sends no request when the given text already
\* parses; otherwise it sends at most MaxRetries requests and stops at the
\* first response that parses, whose record the Planning step then holds;
\* after MaxRetries unparseable responses the record is the error sentinel
RetryOnlyWhenUnparseable ==
    /\ [][/\ \A text \in PlanningReplies :
               (Parses(text) /\ PlanningCycle(text)) => ~InRetry'
          /\ \A text \in SynthesisReplies :
               (Parses(text) /\ Synthesize(text)) => ~InRetry']_vars
    /\ [](InRetry => attempt < MaxRetries)
    /\ [][/\ \A text \in PlanningReplies :
               (Parses(text) /\ PlanningRetry(text)) =>
                   /\ ~InRetry'
                   /\ PlanOf(cycle_history'[Len(cycle_history')]) = text.obj
          /\ \A text \in SynthesisReplies :
               (Parses(text) /\ SynthesisRetry(text)) => ~InRetry']_vars
    /\ [][(attempt = MaxRetries - 1 /\ PlanningRetry(Prose)) =>
            PlanOf(cycle_history'[Len(cycle_history')]) = ParseErrorSentinel]_vars

\* what a run writes to the intermediate results of Working Memory when it
\* selects and executes an action
RunKeys ==
    {"selected_action", "action_parameters"} \cup {ToolResultKey(name) : name \in Tools}

\* C33: in every run of a sequence of reason() calls, the state before the
\* first Planning phase holds an empty CycleStep log, a cycle counter of 0 (1
\* once the loop has left INITIAL) and a Working Memory state without
\* confidence, selected action, action parameters or tool result; and an
\* Execution phase executes the action the Planning step of its own run and
\* cycle selected
RunStartsFresh ==
    /\ (call_status = "running" /\ pc \in {"preprocess", "loop"} /\ plan_phases = 0) =>
          /\ cycle_history = << >>
          /\ current_cycle = (IF pc = "loop" /\ current_state = PLANNING THEN 1 ELSE 0)
          /\ wm_state["task"] = original_task
          /\ "confidence" \notin DOMAIN wm_state
          /\ DOMAIN IntermediateResults(wm_state) \cap RunKeys = {}
    /\ (call_status = "running" /\ pc = "loop" /\ current_state = EXECUTION) =>
          /\ cycle_history # << >>
          /\ LET planned == cycle_history[Len(cycle_history)]
             IN  /\ planned.state = PLANNING
                 /\ planned.cycle_number = current_cycle
                 /\ planned.action_selected = SelectedAction
                 /\ Get(PlanOf(planned), "parameters", EmptyMap) =
                       Get(IntermediateResults(wm_state), "action_parameters", EmptyMap)

\* the second run is about to execute object_detector; the first run, whose
\* state was archived, had selected and executed region_mapper
SecondRunWitness ==
    /\ Len(wm_data) = 1
    /\ Get(IntermediateResults(wm_data[1]["state"]), "selected_action", NONE)
          = "region_mapper"
    /\ ToolResultKey("region_mapper") \in DOMAIN IntermediateResults(wm_data[1]["state"])
    /\ call_status = "running"
    /\ pc = "loop"
    /\ current_state = EXECUTION
    /\ SelectedAction = "object_detector"
    /\ ToolResultKey("region_mapper") \notin DOMAIN IntermediateResults(wm_state)

\* C34: in the CycleStep log of a run every EXECUTION step comes directly
\* after a PLANNING step of the same cycle that selected the same action, and
\* no cycle number is carried by two PLANNING steps or by two EXECUTION steps
StepsPairUp ==
    /\ \A i \in 1..Len(cycle_history) :
          cycle_history[i].state = EXECUTION =>
              /\ i > 1
              /\ cycle_history[i - 1].state = PLANNING
              /\ cycle_history[i - 1].cycle_number = cycle_history[i].cycle_number
              /\ cycle_history[i - 1].action_selected = cycle_history[i].action_selected
    /\ \A i, j \in 1..Len(cycle_history) :
          (i < j /\ cycle_history[i].state = cycle_history[j].state) =>
              cycle_history[i].cycle_number # cycle_history[j].cycle_number

\* two full cycles are on the log of a returned run
StepsPairUpWitness ==
    /\ call_status = "returned"
    /\ Len(cycle_history) = 4
    /\ [i \in 1..4 |-> cycle_history[i].state]
          = << PLANNING, EXECUTION, PLANNING, EXECUTION >>
    /\ [i \in 1..4 |-> cycle_history[i].cycle_number] = << 1, 1, 2, 2 >>
    /\ cycle_history[3].action_selected # cycle_history[1].action_selected

\* the selected action is a name the registry does not hold
UnregisteredSelected ==
    /\ SelectedAction # NONE
    /\ SelectedAction # UNHASHABLE
    /\ SelectedAction \notin DOMAIN ActionSpace

\* C35: the Execution phase of an action name that is not registered changes
\* no memory and no file, invokes no tool, appends no CycleStep, raises no
\* fault, and the run moves to COMPLETED
UnregisteredEndsRun ==
    [][(UnregisteredSelected /\ \E outcome \in ToolOutcomes : ExecutionCycle(outcome)) =>
          /\ UNCHANGED << cycle_history, wm_state, wm_data, episodic, semantic,
                          procedural, durable, next_uid, tool_raised, current_cycle >>
          /\ current_state' = COMPLETED
          /\ fault' = "none"
          /\ pc' = "loop"]_vars

\* a returned run whose only step planned launch_probe
UnregisteredWitness ==
    /\ call_status = "returned"
    /\ max_cycles = 3
    /\ exec_phases = 1
    /\ Len(cycle_history) = 1
    /\ cycle_history[1].state = PLANNING
    /\ cycle_history[1].action_selected = "launch_probe"
    /\ current_state = COMPLETED
    /\ final_result["total_cycles"] = 1

\* the Execution phase of the action `name` has run and recorded its step
ExecutedNow(name) ==
    /\ pc = "loop"
    /\ current_state = EXECUTION
    /\ SelectedAction = name
    /\ Len(cycle_history') = Len(cycle_history) + 1
    /\ cycle_history'[Len(cycle_history')].state = EXECUTION
    /\ cycle_history'[Len(cycle_history')].action_selected = name

\* the memory grows by one entry and keeps the entries it had
GainsOne(before, after) ==
    /\ Len(after) = Len(before) + 1
    /\ SubSeq(after, 1, Len(before)) = before

\* C36: over a run, Procedural Memory changes only by an executed
\* store_procedure, Episodic Memory only by an executed store_episode or the
\* final commit, Semantic Memory only by an executed store_fact or the
\* region-mapper side effect; each change adds one entry and leaves the
\* others as they were (nothing is updated or cleared), and a Planning phase
\* changes no long-term memory
MemoryChangesOnlyByStores ==
    [][/\ procedural' # procedural =>
             /\ ExecutedNow("store_procedure")
             /\ GainsOne(procedural, procedural')
       /\ episodic' # episodic =>
             /\ ExecutedNow("store_episode") \/ (pc = "store_episode" /\ pc' = "idle")
             /\ GainsOne(episodic, episodic')
       /\ semantic' # semantic =>
             /\ \/ ExecutedNow("store_fact")
                \/ /\ ExecutedNow("region_mapper")
                   /\ "bbox" \in DOMAIN
                         cycle_history'[Len(cycle_history')].results["action_result"]
             /\ GainsOne(semantic, semantic')
       /\ (pc = "planning_retry" \/ (pc = "loop" /\ current_state = PLANNING)) =>
             UNCHANGED << episodic, semantic, procedural, durable >>]_vars

\* a returned run that executed store_procedure and store_fact and committed
\* its episode
ThreeStoresWitness ==
    /\ call_status = "returned"
    /\ ActionsExecuted(cycle_history) = << "store_procedure", "store_fact" >>
    /\ Len(procedural) = 5
    /\ Len(semantic) = 6
    /\ Len(episodic) = 1

\* the positions of the EXECUTION steps on a reasoning_trace
ExecutionSteps(trace) == {i \in 1..Len(trace) : trace[i].state = EXECUTION}

\* C37: in a returned result actions_executed lists the action names of the
\* EXECUTION steps of reasoning_trace in their order, and tool_results has
\* one entry for each name among them, the result of the last EXECUTION step
\* of that name
ResultMatchesTrace ==
    call_status = "returned" =>
        LET trace == final_result["reasoning_trace"]
            steps == ExecutionSteps(trace)
            names == {trace[i].action_selected : i \in steps}
            executed == final_result["actions_executed"]
            tool_results == final_result["tool_results"]
        IN  /\ Len(executed) = Cardinality(steps)
            /\ \A i \in steps :
                  executed[Cardinality({j \in steps : j <= i})] = trace[i].action_selected
            /\ DOMAIN tool_results = names
            /\ \A i \in steps :
                  (\A j \in steps :
                      trace[j].action_selected = trace[i].action_selected => j <= i)
                  => tool_results[trace[i].action_selected]
                        = trace[i].results["action_result"]

\* region_mapper ran twice with different results; the second is reported
RepeatedActionWitness ==
    /\ call_status = "returned"
    /\ final_result["actions_executed"] = << "region_mapper", "region_mapper" >>
    /\ LET trace == final_result["reasoning_trace"]
       IN  /\ Len(trace) = 4
           /\ trace[2].results["action_result"] # trace[4].results["action_result"]
           /\ final_result["tool_results"]["region_mapper"]
                 = trace[4].results["action_result"]

\* the collection holds the default procedures, in their order, and no other
HoldsDefaultProcedures(data) ==
    /\ Len(data) = Len(DefaultProcedures)
    /\ \A i \in 1..Len(data) :
          \A k \in DOMAIN DefaultProcedures[i] : data[i][k] = DefaultProcedures[i][k]

\* C38: a constructor of Procedural Memory that returns leaves exactly the
\* default procedures when the store it found was empty, and exactly the
\* entries of the store when it was not; either way the collection a run
\* then plans on is not empty
ProceduralSeededOnce ==
    [][\A file_path \in FilePaths, content \in FileContents :
         (mem_call.memory = "procedural" /\ mem_call'.op = "construct"
            /\ MemoryConstruct(file_path, content) /\ ~mem_call'.raised) =>
             LET store == Held(content, procedural_file)
             IN  /\ store = << >> => HoldsDefaultProcedures(procedural')
                 /\ store # << >> => procedural' = store
                 /\ procedural' # << >>]_vars

\* the module is constructed again on the file of an instance that had stored
\* a fifth procedure: the five entries are back, the defaults are not repeated
ReconstructedWitness ==
    /\ mem_call.memory = "procedural"
    /\ mem_call.op = "construct"
    /\ ~mem_call.raised
    /\ mem_call.arg.content = "entries"
    /\ Len(procedural) = 5
    /\ HoldsDefaultProcedures(SubSeq(procedural, 1, 4))
    /\ procedural[5]["name"] = "note"

\* C39: a persistent module constructed on the file the instance before it
\* left, a file that holds entries, holds those entries in that order, with
\* whichever encoder and decoder the formatter runs
RestartKeepsEntries ==
    [][(CallOf("restart") /\ FileOf(mem_call.memory) # << >>) =>
           \A m \in Modules :
              mem_call.memory = m =>
                  /\ m = "episodic" => episodic' = FileOf(m)
                  /\ m = "semantic" => semantic' = FileOf(m)
                  /\ m = "procedural" => procedural' = FileOf(m)]_vars

====
